---- MODULE Spec2Model ----
(***************************************************************************)
(* Staking-operation orchestration of the Coinbase SDK:                    *)
(*   - StakingOperation (src/coinbase/staking_operation.js): the state     *)
(*     container with its constructor, reload, sign, wait and the          *)
(*     transaction reconciliation loadTransactionsFromModel;               *)
(*   - WalletAddress.createStakingOperation                                *)
(*     (src/coinbase/address/wallet_address.js): the custodial             *)
(*     sign / broadcast / reload poller.                                   *)
(* The backend, the signing key and the clock are the environment: every   *)
(* response, signing outcome and call duration is a nondeterministic       *)
(* choice.                                                                 *)
(***************************************************************************)
EXTENDS Integers, Sequences, FiniteSets, TLC

(***************************************************************************)
(* Bounds of the model.                                                    *)
(***************************************************************************)
\* longest transaction list a backend snapshot carries
MaxLen == 2
\* largest timeoutSeconds a caller passes (in clock ticks of one second)
MaxTimeout == 3
\* largest intervalSeconds a caller passes
MaxInterval == 2
\* largest timeoutSeconds passed to the custodial poller
MaxPollerTimeout == 2
\* the intervalSeconds passed to the custodial poller
PollerInterval == 1

\* unsigned payloads the backend can put in a snapshot
Payloads == {"p1", "p2"}

\* values of StakingOperationStatusEnum the orchestration distinguishes
Statuses == {"initialized", "complete", "failed"}

\* values model.wallet_id takes: undefined (external address), null, the
\* empty string and a wallet id
Undefined == "undefined"
Null == "null"
WalletIds == {Undefined, Null, "", "w1"}

(***************************************************************************)
(* Backend snapshots (StakingOperationModel).  A transaction model carries *)
(* its unsigned payload and whether a signed payload is present.           *)
(* `transactions` undefined and `transactions` empty both fail the guard   *)
(* of loadTransactionsFromModel and are both written <<>>.                 *)
(***************************************************************************)
TransactionModels == [unsigned_payload : Payloads, signed : BOOLEAN]

SeqsUpTo(S, n) == UNION {[1..k -> S] : k \in 0..n}

Snapshots ==
    [status : Statuses, wallet_id : WalletIds,
     transactions : SeqsUpTo(TransactionModels, MaxLen)]

\* the snapshots each specification draws the backend's responses from
\* (the full product is beyond exhaustive search): every transaction list
\* for one address; every status and wallet id with a short list; every
\* status and list for one wallet
ListSnapshots == {s \in Snapshots : s.status = "initialized" /\ s.wallet_id = Undefined}

StatusSnapshots ==
    {s \in Snapshots : s.transactions \in
        {<<>>, <<[unsigned_payload |-> "p1", signed |-> FALSE]>>}}

\* a backend that lists each transaction of a wallet's operation once
WalletSnapshots ==
    {s \in Snapshots :
        /\ s.wallet_id = "w1"
        /\ \A a, b \in DOMAIN s.transactions :
              a # b => s.transactions[a].unsigned_payload
                         # s.transactions[b].unsigned_payload}

\* responses of the create and broadcast endpoints: the poller reloads
\* before it reads the status, so the status they carry is never read
CreatedSnapshots == {s \in WalletSnapshots : s.status = "initialized"}

ExternalSnapshots == {s \in StatusSnapshots : s.wallet_id = Undefined}

(***************************************************************************)
(* Transaction (src/coinbase/transaction.js is not part of the sources;    *)
(* modelled from the data model: identity = unsigned payload, an optional  *)
(* signed payload, signing is a one-way transition).  `signs` counts the   *)
(* invocations of the signing capability on this object.                   *)
(***************************************************************************)
NewTransaction(m) ==
    [unsigned_payload |-> m.unsigned_payload, signed |-> m.signed, signs |-> 0]

isSigned(tx) == tx.signed

getUnsignedPayload(tx) == tx.unsigned_payload

TransactionSign(tx) == [tx EXCEPT !.signed = TRUE, !.signs = @ + 1]

(***************************************************************************)
(* Sequence helpers.                                                       *)
(***************************************************************************)
Range(s) == {s[k] : k \in DOMAIN s}

PayloadsOf(s) == {s[k].unsigned_payload : k \in DOMAIN s}

PayloadSeq(s) == [k \in DOMAIN s |-> s[k].unsigned_payload]

IsPrefix(s, t) == Len(s) <= Len(t) /\ \A k \in DOMAIN s : t[k] = s[k]

Count(p, s) == Cardinality({k \in DOMAIN s : s[k].unsigned_payload = p})

\* the distinct elements of s in the order of their first occurrence
RECURSIVE Dedup(_)
Dedup(s) ==
    IF s = <<>> THEN <<>>
    ELSE LET front == Dedup(SubSeq(s, 1, Len(s) - 1))
             last == s[Len(s)]
         IN IF last \in Range(front) THEN front ELSE Append(front, last)

(***************************************************************************)
(* StakingOperation: pure predicates over the stored snapshot.             *)
(***************************************************************************)
getStatus(m) == m.status

getWalletID(m) == m.wallet_id

isCompleteState(m) == getStatus(m) = "complete"

isFailedState(m) == getStatus(m) = "failed"

isTerminalState_CompleteOnly(m) == isCompleteState(m)

isTerminalState(m) == isCompleteState(m) \/ isFailedState(m)

(***************************************************************************)
(* loadTransactionsFromModel: the set of local unsigned payloads is taken  *)
(* once, before the snapshot's list is walked; every snapshot transaction  *)
(* whose payload is not in that set is pushed, in snapshot order.          *)
(***************************************************************************)
loadTransactionsFromModel_Overwrite(txs, m) ==
    IF Len(m.transactions) > 0
    THEN [k \in DOMAIN m.transactions |-> NewTransaction(m.transactions[k])]
    ELSE txs

loadTransactionsFromModel_Prepend(txs, m) ==
    IF Len(m.transactions) > 0
    THEN LET existingUnsignedPayloads == PayloadsOf(txs)
             IsNew(t) == t.unsigned_payload \notin existingUnsignedPayloads
             fresh == SelectSeq(m.transactions, IsNew)
         IN [k \in DOMAIN fresh |-> NewTransaction(fresh[k])] \o txs
    ELSE txs

loadTransactionsFromModel(txs, m) ==
    IF Len(m.transactions) > 0
    THEN LET existingUnsignedPayloads == PayloadsOf(txs)
             IsNew(t) == t.unsigned_payload \notin existingUnsignedPayloads
             fresh == SelectSeq(m.transactions, IsNew)
         IN txs \o [k \in DOMAIN fresh |-> NewTransaction(fresh[k])]
    ELSE txs

\* which get-staking-operation endpoint reload calls for a wallet id:
\* wallet_id === undefined -> external; != undefined and != "" -> wallet;
\* otherwise (null, "") no request is made
ReloadPath(wid) ==
    IF wid = Undefined THEN "external"
    ELSE IF wid # Null /\ wid # "" THEN "wallet"
    ELSE "none"

\* what a StakingOperation keeps of a snapshot it stores in this.model: the
\* snapshot's transaction list is read by the loadTransactionsFromModel call
\* that follows the assignment, and after that only by a reload that makes
\* no request (wallet id null or ""); it is kept only where it can be read
Stored(s) ==
    IF ReloadPath(s.wallet_id) = "none" THEN s ELSE [s EXCEPT !.transactions = <<>>]

(***************************************************************************)
(* State.                                                                  *)
(***************************************************************************)
VARIABLES
    model,            \* StakingOperation.model: the stored snapshot
    transactions,     \* StakingOperation.transactions: the local list
    lastOp,           \* the operation or step that produced this state
    lastFetch,        \* what the last reload did (path, outcome, snapshot)
    walletId0,        \* the wallet id of the snapshot given to the constructor
    backendList,      \* poller: payloads of the last snapshot returned, in order
    firstPath,        \* the endpoint of the first reload that made a request
    seenOrder,        \* payloads of all snapshots so far, in first-seen order
    allSuperset,      \* every reload so far fetched a superset of the local list
    pc,               \* position of the running wait / poller call
    i,                \* poller: index of the for loop over the transactions
    now,              \* Date.now(), in seconds
    startTime,        \* wait / poller: Date.now() taken before the loop
    entered,          \* the time at which the running call reached its loop
    timeoutSeconds,   \* argument of the running wait / poller call
    intervalSeconds,  \* argument of the running wait / poller call
    sweepLen,         \* poller: length of the list when the for loop began
    sweepLast,        \* poller: last index broadcast in this for loop, -1 if none
    runLast,          \* poller: last index broadcast in this run, -1 if none
    broadcasted,      \* poller: payloads submitted to the broadcast endpoint
    honest,           \* poller: every snapshot so far showed them as signed
    instant,          \* every backend call of the running call took no time
    req               \* the staking request being made: arguments, position, calls

histVars == <<walletId0, backendList, req, firstPath, seenOrder, allSuperset>>

callVars == <<pc, i, now, startTime, entered, timeoutSeconds, intervalSeconds,
              sweepLen, sweepLast, runLast, broadcasted, honest, instant>>

vars == <<model, transactions, lastOp, lastFetch, walletId0, backendList, firstPath,
          seenOrder, allSuperset, pc, i, now, startTime, entered,
          timeoutSeconds, intervalSeconds, sweepLen, sweepLast, runLast,
          broadcasted, honest, instant, req>>

NoFetch == [path |-> "none", outcome |-> "none", status |-> "none",
            wallet_id |-> "none", before |-> "none", added |-> 0]

\* no staking request is being made
NoRequest == [kind |-> "none"]

\* no wait / poller call is running
IdleCall ==
    /\ req = NoRequest
    /\ pc = "idle"
    /\ i = 0
    /\ now = 0
    /\ startTime = 0
    /\ entered = 0
    /\ timeoutSeconds = 0
    /\ intervalSeconds = 0
    /\ sweepLen = 0
    /\ sweepLast = -1
    /\ runLast = -1
    /\ broadcasted = {}
    /\ honest = TRUE
    /\ instant = TRUE

(***************************************************************************)
(* new StakingOperation(model): stores the snapshot, starts from an empty  *)
(* list and runs loadTransactionsFromModel.                                *)
(***************************************************************************)
Constructor(s) ==
    [model |-> Stored(s), transactions |-> loadTransactionsFromModel(<<>>, s)]

Constructed(S) ==
    \E s \in S :
        /\ model = Constructor(s).model
        /\ transactions = Constructor(s).transactions
        /\ lastOp = "constructor"
        /\ lastFetch = NoFetch
        /\ walletId0 = s.wallet_id
        /\ backendList = <<>>
        /\ firstPath = "none"
        /\ seenOrder = Dedup(PayloadSeq(s.transactions))
        /\ allSuperset = TRUE

(***************************************************************************)
(* reload(): picks the endpoint from the wallet id of the stored snapshot, *)
(* replaces the snapshot by the response, then reconciles the list.  A     *)
(* failed request throws before anything is assigned.  With wallet id null *)
(* or "" no request is made and only the reconciliation runs.              *)
(***************************************************************************)
reload_KeepTerminal(m, txs, s) ==
    LET kept == IF isTerminalState(m) THEN [s EXCEPT !.status = m.status] ELSE s
    IN [model |-> Stored(kept), transactions |-> loadTransactionsFromModel(txs, kept)]

reload_KeepWalletId(m, txs, s) ==
    LET kept == [s EXCEPT !.wallet_id = m.wallet_id]
    IN [model |-> Stored(kept), transactions |-> loadTransactionsFromModel(txs, kept)]

reload_TerminalNoOp(m, txs, s) ==
    IF isTerminalState(m) \/ ReloadPath(getWalletID(m)) = "none"
    THEN [model |-> m, transactions |-> loadTransactionsFromModel(txs, m)]
    ELSE [model |-> Stored(s), transactions |-> loadTransactionsFromModel(txs, s)]

reload(m, txs, s) ==
    IF ReloadPath(getWalletID(m)) = "none"
    THEN [model |-> m, transactions |-> loadTransactionsFromModel(txs, m)]
    ELSE [model |-> Stored(s), transactions |-> loadTransactionsFromModel(txs, s)]

\* the record of a reload that made a request and got s
Fetched(m, txs, s) ==
    [path |-> ReloadPath(getWalletID(m)), outcome |-> "ok", status |-> s.status,
     wallet_id |-> s.wallet_id, before |-> m.status,
     added |-> Len(reload(m, txs, s).transactions) - Len(txs)]

ReloadOk(s) ==
    /\ model' = reload(model, transactions, s).model
    /\ transactions' = reload(model, transactions, s).transactions
    /\ IF ReloadPath(getWalletID(model)) = "none"
       THEN /\ lastFetch' = [NoFetch EXCEPT !.outcome = "skipped",
                                            !.before = model.status]
            /\ UNCHANGED <<firstPath, seenOrder, allSuperset>>
       ELSE /\ lastFetch' = Fetched(model, transactions, s)
            /\ firstPath' = IF firstPath = "none"
                            THEN ReloadPath(getWalletID(model)) ELSE firstPath
            /\ seenOrder' = Dedup(seenOrder \o PayloadSeq(s.transactions))
            /\ allSuperset' = (allSuperset /\ PayloadsOf(transactions)
                                                \subseteq PayloadsOf(s.transactions))

ReloadThrows_Reconciled ==
    /\ ReloadPath(getWalletID(model)) # "none"
    /\ lastFetch' = [NoFetch EXCEPT !.path = ReloadPath(getWalletID(model)),
                                    !.outcome = "error", !.before = model.status]
    /\ firstPath' = IF firstPath = "none"
                    THEN ReloadPath(getWalletID(model)) ELSE firstPath
    /\ transactions' = [k \in DOMAIN transactions |->
                           NewTransaction(transactions[k])]
    /\ UNCHANGED <<model, seenOrder, allSuperset>>

ReloadThrows_Retried ==
    /\ ReloadPath(getWalletID(model)) # "none"
    /\ lastFetch' = [NoFetch EXCEPT !.path = ReloadPath(getWalletID(model)),
                                    !.outcome = "error", !.before = model.status]
    /\ firstPath' = IF firstPath = "none"
                    THEN ReloadPath(getWalletID(model)) ELSE firstPath
    /\ \E s \in ExternalSnapshots :
          /\ model' = reload(model, transactions, s).model
          /\ transactions' = reload(model, transactions, s).transactions
    /\ UNCHANGED <<seenOrder, allSuperset>>

\* the request of the reload fails: the error leaves reload before
\* this.model is assigned
ReloadThrows ==
    /\ ReloadPath(getWalletID(model)) # "none"
    /\ lastFetch' = [NoFetch EXCEPT !.path = ReloadPath(getWalletID(model)),
                                    !.outcome = "error", !.before = model.status]
    /\ firstPath' = IF firstPath = "none"
                    THEN ReloadPath(getWalletID(model)) ELSE firstPath
    /\ UNCHANGED <<model, transactions, seenOrder, allSuperset>>

ReloadFrom(S) ==
    /\ pc = "idle"
    /\ \/ \E s \in S : ReloadOk(s)
       \/ ReloadThrows
    /\ lastOp' = "reload"
    /\ UNCHANGED <<walletId0, backendList, req, callVars>>

(***************************************************************************)
(* sign(key): signs every transaction that is not signed, in list order;   *)
(* the first signing failure propagates and leaves the later ones as they  *)
(* were.  failAt = 0: no signing call fails.                               *)
(***************************************************************************)
sign_PastFailure(txs, failAt) ==
    [k \in DOMAIN txs |->
        IF ~isSigned(txs[k]) /\ k # failAt THEN TransactionSign(txs[k]) ELSE txs[k]]

sign_SignedAgain(txs, failAt) ==
    [k \in DOMAIN txs |->
        IF failAt = 0 \/ k < failAt THEN TransactionSign(txs[k]) ELSE txs[k]]

sign(txs, failAt) ==
    [k \in DOMAIN txs |->
        IF ~isSigned(txs[k]) /\ (failAt = 0 \/ k < failAt)
        THEN TransactionSign(txs[k])
        ELSE txs[k]]

Sign ==
    /\ pc = "idle"
    /\ \E failAt \in {0} \cup {k \in DOMAIN transactions : ~isSigned(transactions[k])} :
          /\ transactions' = sign(transactions, failAt)
          /\ lastOp' = IF failAt = 0 THEN "sign" ELSE "signError"
    /\ lastFetch' = NoFetch
    /\ UNCHANGED <<model, histVars, callVars>>

(***************************************************************************)
(* Spec: one StakingOperation of an external address, built from any       *)
(* snapshot, then reloaded against arbitrary transaction lists and signed  *)
(* by the caller in any order.                                             *)
(***************************************************************************)
Init == Constructed(ListSnapshots) /\ IdleCall

Reload == ReloadFrom(ListSnapshots)

Next == Reload \/ Sign

Spec == Init /\ [][Next]_vars

(***************************************************************************)
(* SpecStatus: one StakingOperation reloaded against snapshots of every    *)
(* status and wallet id.                                                   *)
(***************************************************************************)
InitStatus == Constructed(StatusSnapshots) /\ IdleCall

ReloadStatus == ReloadFrom(StatusSnapshots)

NextStatus == ReloadStatus \/ Sign

SpecStatus == InitStatus /\ [][NextStatus]_vars

(***************************************************************************)
(* WalletAddress.createStakingOperation: the custodial poller.  One step   *)
(* per evaluation of the while condition, per iteration of the for loop,   *)
(* per reload with the terminal check after it, and per delay.  A backend  *)
(* call takes 0 or 1 second; delay(intervalSeconds) takes intervalSeconds. *)
(***************************************************************************)
\* backend calls stop taking time once the clock has reached MaxClock
MaxClock == MaxPollerTimeout + 1

Durations == {0, 1}

\* a snapshot is honest about the payloads in B when it shows every
\* transaction with such a payload as signed
HonestSnapshot(s, B) ==
    \A k \in DOMAIN s.transactions :
        s.transactions[k].unsigned_payload \in B => s.transactions[k].signed

\* key.signTransaction(rawTransaction): the signed transaction as a hex
\* string with its 0x prefix
signTransaction(unsignedPayload) == "0x" \o "signed" \o unsignedPayload

\* Transaction.getSignedPayload of a transaction the key has just signed
getSignedPayload(tx) == signTransaction(getUnsignedPayload(tx))

slice_Whole(s, n) == s

\* String.prototype.slice(n)
slice(s, n) == SubSeq(s, n + 1, Len(s))

\* the request of broadcastStakingOperationRequest for the transaction tx,
\* signed, at index index of the list
broadcastStakingOperationRequest(tx, index) ==
    [kind |-> "broadcast",
     signed_payload |-> slice(getSignedPayload(tx), 2),
     transaction_index |-> index,
     transaction |-> tx]

\* the while condition: Date.now() - startTime < timeoutSeconds * 1000
pollerContinues(t, start, timeout) == t - start < timeout

\* the guard of the for loop body: if (!transaction.isSigned())
needsBroadcast_Always(tx) == TRUE

needsBroadcast(tx) == ~isSigned(tx)

\* the for loop's i++
nextIndex_Restart(k) == 0

nextIndex_SkipOne(k) == k + 2

nextIndex(k) == k + 1

\* after the reload: return when terminal, otherwise delay and loop
afterReload_ReturnAlways(m) == "returned"

afterReload(m) == IF isTerminalState(m) THEN "returned" ELSE "delay"

\* createStakingOperationRequest has returned the created operation and
\* startTime has been taken
InitPoller ==
    /\ \E s \in CreatedSnapshots :
          /\ model = Constructor(s).model
          /\ transactions = Constructor(s).transactions
          /\ walletId0 = s.wallet_id
          /\ backendList = PayloadSeq(s.transactions)
          /\ seenOrder = Dedup(PayloadSeq(s.transactions))
    /\ lastOp = "create"
    /\ lastFetch = NoFetch
    /\ firstPath = "none"
    /\ allSuperset = TRUE
    /\ pc = "loopTop"
    /\ i = 0
    /\ now = 0
    /\ startTime = now
    /\ entered = now
    /\ timeoutSeconds \in 0..MaxPollerTimeout
    /\ intervalSeconds = PollerInterval
    /\ sweepLen = 0
    /\ sweepLast = -1
    /\ runLast = -1
    /\ broadcasted = {}
    /\ honest = TRUE
    /\ instant = TRUE
    /\ req = NoRequest

\* while (Date.now() - startTime < timeoutSeconds * 1000) ... throw timeout
PollerLoopTop ==
    /\ pc = "loopTop"
    /\ IF pollerContinues(now, startTime, timeoutSeconds)
       THEN /\ pc' = "forLoop"
            /\ i' = 0
            /\ sweepLen' = Len(transactions)
            /\ sweepLast' = -1
       ELSE /\ pc' = "timeout"
            /\ UNCHANGED <<i, sweepLen, sweepLast>>
    /\ lastOp' = "loopTop"
    /\ UNCHANGED <<model, transactions, lastFetch, histVars, now, startTime,
                   entered, timeoutSeconds, intervalSeconds, runLast,
                   broadcasted, honest, instant>>

\* for body, transaction already signed: nothing to do, i++
PollerSkip ==
    /\ pc = "forLoop"
    /\ i < Len(transactions)
    /\ ~needsBroadcast(transactions[i + 1])
    /\ i' = nextIndex(i)
    /\ lastOp' = "skip"
    /\ UNCHANGED <<model, transactions, lastFetch, histVars, pc, now,
                   startTime, entered, timeoutSeconds, intervalSeconds,
                   sweepLen, sweepLast, runLast, broadcasted, honest, instant>>

\* for body, unsigned transaction: sign it, broadcast it with index i, and
\* replace stakingOperation by a new StakingOperation built from the
\* response
PollerSignBroadcast ==
    /\ pc = "forLoop"
    /\ i < Len(transactions)
    /\ needsBroadcast(transactions[i + 1])
    /\ \E s \in CreatedSnapshots, d \in Durations :
          /\ now + d <= MaxClock \/ d = 0
          /\ model' = Constructor(s).model
          /\ transactions' = Constructor(s).transactions
          /\ now' = now + d
          /\ backendList' = PayloadSeq(s.transactions)
          /\ honest' = (honest /\ HonestSnapshot(s,
                           broadcasted \cup {transactions[i + 1].unsigned_payload}))
    /\ broadcasted' = broadcasted \cup {transactions[i + 1].unsigned_payload}
    /\ req' = broadcastStakingOperationRequest(TransactionSign(transactions[i + 1]), i)
    /\ sweepLast' = i
    /\ runLast' = i
    /\ i' = nextIndex(i)
    /\ lastOp' = "broadcast"
    /\ UNCHANGED <<lastFetch, walletId0, firstPath, seenOrder, allSuperset, pc,
                   startTime, entered, timeoutSeconds, intervalSeconds,
                   sweepLen, instant>>

\* transaction.sign(key) throws: the error leaves createStakingOperation
PollerSignThrows ==
    /\ pc = "forLoop"
    /\ i < Len(transactions)
    /\ needsBroadcast(transactions[i + 1])
    /\ pc' = "error"
    /\ lastOp' = "signError"
    /\ UNCHANGED <<model, transactions, lastFetch, histVars, i, now, startTime,
                   entered, timeoutSeconds, intervalSeconds, sweepLen,
                   sweepLast, runLast, broadcasted, honest, instant>>

\* the broadcast request fails after the transaction was signed
PollerBroadcastThrows ==
    /\ pc = "forLoop"
    /\ i < Len(transactions)
    /\ needsBroadcast(transactions[i + 1])
    /\ transactions' = [transactions EXCEPT ![i + 1] = TransactionSign(@)]
    /\ req' = broadcastStakingOperationRequest(TransactionSign(transactions[i + 1]), i)
    /\ pc' = "error"
    /\ lastOp' = "broadcastError"
    /\ UNCHANGED <<model, lastFetch, walletId0, backendList, firstPath, seenOrder,
                   allSuperset, i, now, startTime, entered, timeoutSeconds,
                   intervalSeconds, sweepLen, sweepLast, runLast, broadcasted,
                   honest, instant>>

\* the for loop is over: stakingOperation.reload(), then return if terminal
PollerReload ==
    /\ pc = "forLoop"
    /\ ~(i < Len(transactions))
    /\ \E s \in WalletSnapshots, d \in Durations :
          /\ now + d <= MaxClock \/ d = 0
          /\ model' = reload(model, transactions, s).model
          /\ transactions' = reload(model, transactions, s).transactions
          /\ lastFetch' = Fetched(model, transactions, s)
          /\ now' = now + d
          /\ backendList' = PayloadSeq(s.transactions)
          /\ honest' = (honest /\ HonestSnapshot(s, broadcasted))
    /\ pc' = afterReload(model')
    /\ lastOp' = "reload"
    /\ UNCHANGED <<walletId0, req, firstPath, seenOrder, allSuperset, i, startTime, entered, timeoutSeconds,
                   intervalSeconds, sweepLen, sweepLast, runLast, broadcasted,
                   instant>>

\* the request of that reload fails
PollerReloadThrows ==
    /\ pc = "forLoop"
    /\ ~(i < Len(transactions))
    /\ pc' = "error"
    /\ lastOp' = "reloadError"
    /\ lastFetch' = [NoFetch EXCEPT !.path = ReloadPath(getWalletID(model)),
                                    !.outcome = "error", !.before = model.status]
    /\ UNCHANGED <<model, transactions, histVars, i, now, startTime, entered,
                   timeoutSeconds, intervalSeconds, sweepLen, sweepLast,
                   runLast, broadcasted, honest, instant>>

\* await delay(intervalSeconds)
PollerDelay ==
    /\ pc = "delay"
    /\ now' = now + intervalSeconds
    /\ pc' = "loopTop"
    /\ lastOp' = "delay"
    /\ UNCHANGED <<model, transactions, lastFetch, histVars, i, startTime,
                   entered, timeoutSeconds, intervalSeconds, sweepLen,
                   sweepLast, runLast, broadcasted, honest, instant>>

NextPoller ==
    \/ PollerLoopTop
    \/ PollerSkip
    \/ PollerSignBroadcast
    \/ PollerSignThrows
    \/ PollerBroadcastThrows
    \/ PollerReload
    \/ PollerReloadThrows
    \/ PollerDelay

SpecPoller == InitPoller /\ [][NextPoller]_vars

\* createStakingOperation is one sequential async function whose awaited
\* calls all settle: a step that can be taken is taken
SpecPollerFair == SpecPoller /\ WF_vars(NextPoller)

(***************************************************************************)
(* StakingOperation.wait({intervalSeconds, timeoutSeconds}): one step per  *)
(* entry, per evaluation of the while condition, per reload with the two   *)
(* checks after it, and per delay.  wait is called at time 0 or 1; the     *)
(* request of a reload takes 0, 1 or 2 seconds.                            *)
(***************************************************************************)
\* requests stop taking time once the clock has reached WaitClock
WaitClock == 2 * MaxTimeout + 1

waitAllowed_Always(m) == TRUE

\* if (this.getWalletID() != undefined) throw (loose inequality: null passes)
waitAllowed(m) == getWalletID(m) \in {Undefined, Null}

\* the while condition: Date.now() - startTime < timeoutSeconds * 1000
waitContinues_NoStartTime(t, start, timeout) == t < timeout

waitContinues(t, start, timeout) == t - start < timeout

\* the check after the reload: Date.now() - startTime > timeoutSeconds * 1000
waitExpired(t, start, timeout) == t - start > timeout

\* how long the request of a reload inside wait can take
WaitDurations == Durations \cup {2}

afterWaitReload_ReturnWhenExpired(m, t, start, timeout) ==
    IF isTerminalState(m) \/ waitExpired(t, start, timeout) THEN "returned"
    ELSE "waitDelay"

afterWaitReload_DeadlineFirst(m, t, start, timeout) ==
    IF waitExpired(t, start, timeout) THEN "timeout"
    ELSE IF isTerminalState(m) THEN "returned"
    ELSE "waitDelay"

\* the two checks after the reload, in program order: return this.model if
\* terminal, else throw the timeout error if past the deadline, else delay
afterWaitReload(m, t, start, timeout) ==
    IF isTerminalState(m) THEN "returned"
    ELSE IF waitExpired(t, start, timeout) THEN "timeout"
    ELSE "waitDelay"

InitWait ==
    /\ Constructed(StatusSnapshots)
    /\ pc = "idle"
    /\ i = 0
    /\ now \in 0..1
    /\ startTime = 0
    /\ entered = 0
    /\ timeoutSeconds \in 0..MaxTimeout
    /\ intervalSeconds \in 1..MaxInterval
    /\ sweepLen = 0
    /\ sweepLast = -1
    /\ runLast = -1
    /\ broadcasted = {}
    /\ honest = TRUE
    /\ instant = TRUE
    /\ req = NoRequest

\* the call: rejected for an operation with a wallet id, else startTime
WaitEnter ==
    /\ pc = "idle"
    /\ IF waitAllowed(model)
       THEN /\ pc' = "waitTop"
            /\ startTime' = now
            /\ entered' = now
       ELSE /\ pc' = "error"
            /\ UNCHANGED <<startTime, entered>>
    /\ lastOp' = "waitEnter"
    /\ UNCHANGED <<model, transactions, lastFetch, histVars, i, now,
                   timeoutSeconds, intervalSeconds, sweepLen, sweepLast,
                   runLast, broadcasted, honest, instant>>

WaitTop ==
    /\ pc = "waitTop"
    /\ pc' = IF waitContinues(now, startTime, timeoutSeconds)
             THEN "waitReload" ELSE "timeout"
    /\ lastOp' = "waitTop"
    /\ UNCHANGED <<model, transactions, lastFetch, histVars, i, now, startTime,
                   entered, timeoutSeconds, intervalSeconds, sweepLen,
                   sweepLast, runLast, broadcasted, honest, instant>>

\* await this.reload(); return if terminal; throw if past the deadline
WaitReload ==
    /\ pc = "waitReload"
    /\ \E s \in ExternalSnapshots, d \in WaitDurations :
          /\ now + d <= WaitClock \/ d = 0
          /\ ReloadOk(s)
          /\ now' = now + d
          /\ instant' = (instant /\ d = 0)
    /\ pc' = afterWaitReload(model', now', startTime, timeoutSeconds)
    /\ lastOp' = "reload"
    /\ UNCHANGED <<walletId0, backendList, req, i, startTime, entered, timeoutSeconds,
                   intervalSeconds, sweepLen, sweepLast, runLast, broadcasted,
                   honest>>

WaitReloadThrows ==
    /\ pc = "waitReload"
    /\ ReloadThrows
    /\ pc' = "error"
    /\ lastOp' = "reload"
    /\ UNCHANGED <<walletId0, backendList, req, i, now, startTime, entered, timeoutSeconds,
                   intervalSeconds, sweepLen, sweepLast, runLast, broadcasted,
                   honest, instant>>

\* delay(seconds) resolves after a timer of seconds * 1000 ms; a timer set
\* to a negative time fires at once
delay(seconds) == IF seconds > 0 THEN seconds ELSE 0

\* await delay(intervalSeconds)
WaitDelay ==
    /\ pc = "waitDelay"
    /\ now' = now + delay(intervalSeconds)
    /\ pc' = "waitTop"
    /\ lastOp' = "delay"
    /\ UNCHANGED <<model, transactions, lastFetch, histVars, i, startTime,
                   entered, timeoutSeconds, intervalSeconds, sweepLen,
                   sweepLast, runLast, broadcasted, honest, instant>>

NextWait ==
    \/ WaitEnter
    \/ WaitTop
    \/ WaitReload
    \/ WaitReloadThrows
    \/ WaitDelay

SpecWait == InitWait /\ [][NextWait]_vars

(***************************************************************************)
(* The queries of one StakingOperation held by the caller, between its     *)
(* reloads: isTerminalState, isCompleteState, isFailedState and            *)
(* getSignedVoluntaryExitMessages.  A snapshot carries a metadata list of  *)
(* base64-encoded signed voluntary exit messages; `metadata` undefined     *)
(* fails the guard of getSignedVoluntaryExitMessages and gives the same    *)
(* empty result as an empty list, and both are written <<>>.  The result   *)
(* of the last query is kept in req.                                       *)
(***************************************************************************)
\* metadata[k].signed_voluntary_exit as the backend sends it; "*" is not
\* base64
EncodedMessages == {"YQ==", "Yg==", "*"}

MetadataLists == {<<>>, <<"YQ==">>, <<"YQ==", "Yg==">>, <<"Yg==", "*">>}

MetadataSnapshots ==
    [status : Statuses, wallet_id : WalletIds,
     transactions : {<<>>, <<[unsigned_payload |-> "p1", signed |-> FALSE]>>},
     metadata : MetadataLists]

InvalidCharacterError == "InvalidCharacterError"

\* atob on the encoded messages above: the decoded string, or the
\* InvalidCharacterError it throws
atob(s) ==
    CASE s = "YQ==" -> "a"
      [] s = "Yg==" -> "b"
      [] OTHER -> InvalidCharacterError

\* the messages decoded in list order; the first one that does not decode
\* throws out of the forEach
getSignedVoluntaryExitMessages(m) ==
    IF \E k \in DOMAIN m.metadata : atob(m.metadata[k]) = InvalidCharacterError
    THEN [threw |-> TRUE, messages |-> <<>>]
    ELSE [threw |-> FALSE,
          messages |-> [k \in DOMAIN m.metadata |-> atob(m.metadata[k])]]

Query(name, holds, result) ==
    /\ pc = "idle"
    /\ lastOp' = name
    /\ req' = [kind |-> "query", name |-> name, holds |-> holds,
               threw |-> result.threw, messages |-> result.messages]
    /\ UNCHANGED <<model, transactions, lastFetch, walletId0, backendList, firstPath,
                   seenOrder, allSuperset, callVars>>

NoMessages == [threw |-> FALSE, messages |-> <<>>]

IsTerminalState == Query("isTerminalState", isTerminalState(model), NoMessages)

IsCompleteState == Query("isCompleteState", isCompleteState(model), NoMessages)

IsFailedState == Query("isFailedState", isFailedState(model), NoMessages)

GetSignedVoluntaryExitMessages ==
    Query("getSignedVoluntaryExitMessages", FALSE,
          getSignedVoluntaryExitMessages(model))

InitQueries ==
    /\ Constructed(MetadataSnapshots)
    /\ IdleCall

ReloadQueries == ReloadFrom(MetadataSnapshots)

NextQueries ==
    \/ ReloadQueries
    \/ IsTerminalState
    \/ IsCompleteState
    \/ IsFailedState
    \/ GetSignedVoluntaryExitMessages

SpecQueries == InitQueries /\ [][NextQueries]_vars

(***************************************************************************)
(* wait called with any pair of numbers: timeoutSeconds and                *)
(* intervalSeconds are destructured from the argument with defaults and    *)
(* used as they come.                                                      *)
(***************************************************************************)
\* largest absolute value of a zero or negative argument
MaxMalformed == 1

WaitArguments == (-MaxMalformed)..1

InitWaitArgs ==
    /\ Constructed(StatusSnapshots)
    /\ pc = "idle"
    /\ i = 0
    /\ now \in 0..1
    /\ startTime = 0
    /\ entered = 0
    /\ timeoutSeconds \in WaitArguments
    /\ intervalSeconds \in WaitArguments
    /\ sweepLen = 0
    /\ sweepLast = -1
    /\ runLast = -1
    /\ broadcasted = {}
    /\ honest = TRUE
    /\ instant = TRUE
    /\ req = NoRequest

SpecWaitArgs == InitWaitArgs /\ [][NextWait]_vars

(***************************************************************************)
(* Staking requests: ExternalAddress.buildStakeOperation /                 *)
(* buildUnstakeOperation / buildClaimStakeOperation and                    *)
(* WalletAddress.createStake / createUnstake / createClaimStake, up to the *)
(* operation returned by the build endpoint (external address) or handed   *)
(* to the poller by the create endpoint (wallet address).  One step per    *)
(* validate call, per amount check of createStakingOperation, per asset    *)
(* lookup and per build / create request.  Amounts and balances are        *)
(* decimals with one fractional digit, held as their number of tenths.     *)
(***************************************************************************)
\* largest requested amount, in whole units
MaxAmount == 2
\* largest reported balance, in whole units
MaxBalance == 1
\* largest number of decimals of an asset
MaxDecimals == 1

StakeActions == {"stake", "unstake", "claim_stake"}

\* "wei" is a denomination of the native asset "eth"
AssetIds == {"eth", "wei", "usdc"}

StakeModes == {"default", "native"}

\* the options map as the caller supplies it; req.options keeps it as it
\* was at the call, req.held is the caller's object as it is now
CallerOptions == [unstake_type : {"absent", "execution", "consensus", "other"},
                  amount : {"absent", "caller"},
                  mode : {"absent", "caller"},
                  extra : {"absent", "caller"}]

Amounts == {5 * k : k \in (-2)..(2 * MaxAmount)}

Balances == {5 * k : k \in 0..(2 * MaxBalance)}

StakingContexts == [stakeableBalance : Balances, unstakeableBalance : Balances,
                    claimableBalance : Balances]

AssetDecimals == 0..MaxDecimals

\* responses of the build endpoint
BuiltSnapshots == {s \in ExternalSnapshots : s.status = "initialized"}

HasUnstakeTypeOption(options) ==
    options.unstake_type = "consensus" \/ options.unstake_type = "execution"

IsDedicatedEthUnstakeV2Operation_AnyMode(assetId, action, mode, options) ==
    assetId = "eth" /\ action = "unstake" /\ HasUnstakeTypeOption(options)

IsDedicatedEthUnstakeV2Operation(assetId, action, mode, options) ==
    /\ assetId = "eth"
    /\ action = "unstake"
    /\ mode = "native"
    /\ HasUnstakeTypeOption(options)

\* Asset.primaryDenomination
primaryDenomination_Identity(assetId) == assetId

primaryDenomination(assetId) ==
    IF assetId \in {"gwei", "wei"} THEN "eth" ELSE assetId

\* constants.GWEI_DECIMALS
GWEI_DECIMALS == 9

\* Asset.fromModel(model, assetId) on the model Asset.fetch asked for, the
\* one of the primary denomination: the decimals of the Asset built for the
\* asset id the caller named
fromModel(modelDecimals, assetId) ==
    IF primaryDenomination(assetId) # assetId
    THEN CASE assetId = "gwei" -> GWEI_DECIMALS
           [] assetId = "wei" -> 0
           [] OTHER -> modelDecimals
    ELSE modelDecimals

\* Asset.toAtomicAmount: wholeAmount.times(10 ^ decimals), then BigInt of
\* its toFixed(), which throws a SyntaxError on a fractional value
atomicIsInteger(amount, decimals) == (amount * (10 ^ decimals)) % 10 = 0

toAtomicAmount(amount, decimals) == (amount * (10 ^ decimals)) \div 10

\* Decimal.lessThan
lessThan_OrEqual(a, b) == a <= b

lessThan(a, b) == a < b

\* Decimal.lessThanOrEqualTo(0) of the requested amount
amountRejected_Negative(amount) == amount < 0

amountRejected(amount) == amount <= 0

NoError == [kind |-> "none", requested |-> 0, available |-> 0]

RequestError(k, amount) == [kind |-> k, requested |-> amount, available |-> 0]

\* `Insufficient funds ${amount} requested ..., only ${balance} available.`
Insufficient(amount, balance) ==
    [kind |-> "insufficient", requested |-> amount, available |-> balance]

validateCanStake(amount, ctx) ==
    IF lessThan(ctx.stakeableBalance, amount)
    THEN Insufficient(amount, ctx.stakeableBalance) ELSE NoError

validateCanUnstake(amount, ctx) ==
    IF lessThan(ctx.unstakeableBalance, amount)
    THEN Insufficient(amount, ctx.unstakeableBalance) ELSE NoError

\* the test validateCanClaimStake makes before it asks for the balance
claimRejected_Never(assetId, mode) == FALSE

claimRejected(assetId, mode) == assetId = "eth" /\ mode = "native"

validateCanClaimStake(amount, ctx) ==
    IF lessThan(ctx.claimableBalance, amount)
    THEN Insufficient(amount, ctx.claimableBalance) ELSE NoError

validate_AlwaysPasses(action, amount, ctx) == NoError

validate(action, amount, ctx) ==
    IF action = "stake" THEN validateCanStake(amount, ctx)
    ELSE IF action = "unstake" THEN validateCanUnstake(amount, ctx)
    ELSE validateCanClaimStake(amount, ctx)

\* buildUnstakeOperation / createUnstake call validateCanUnstake unless the
\* request is a native eth unstake v2; stake and claim stake always validate
needsValidation_Always(r) == TRUE

needsValidation(r) ==
    \/ r.action # "unstake"
    \/ ~IsDedicatedEthUnstakeV2Operation(r.assetId, "unstake", r.mode, r.options)

\* the staking-context response is held in req.context from the validate
\* call that fetched it until the next step of the request
NoContext == [stakeableBalance |-> -1, unstakeableBalance |-> -1,
              claimableBalance |-> -1]

NoPayload == [sent |-> FALSE, action |-> "none", asset_id |-> "none",
              mode |-> "none", unstake_type |-> "none", amount |-> "none",
              extra |-> "none"]

newOptions_CallerWins(r) ==
    [unstake_type |-> r.options.unstake_type,
     extra |-> r.options.extra,
     mode |-> IF r.options.mode # "absent" THEN r.options.mode ELSE r.mode,
     amount |-> IF r.options.amount # "absent"
                   \/ IsDedicatedEthUnstakeV2Operation(r.assetId, r.action,
                                                       r.mode, r.options)
                THEN r.options.amount
                ELSE ToString(toAtomicAmount(r.amount, r.decimals))]

\* the options map sent: a copy of the caller's map (external address) or
\* the caller's map itself (wallet address), then mode assigned, then,
\* unless the request is a native eth unstake v2, amount assigned
newOptions(r) ==
    [unstake_type |-> r.options.unstake_type,
     extra |-> r.options.extra,
     mode |-> r.mode,
     amount |-> IF IsDedicatedEthUnstakeV2Operation(r.assetId, r.action, r.mode,
                                                    r.options)
                THEN r.options.amount
                ELSE ToString(toAtomicAmount(r.amount, r.decimals))]

\* the request of the build / create endpoint: asset_id, action and the
\* options map (the caller's keys with mode and, unless the request is a
\* native eth unstake v2, amount written over them)
StakingRequest(r) ==
    [sent |-> TRUE,
     action |-> r.action,
     asset_id |-> primaryDenomination(r.assetId),
     mode |-> newOptions(r).mode,
     unstake_type |-> newOptions(r).unstake_type,
     amount |-> newOptions(r).amount,
     extra |-> newOptions(r).extra]

\* what buildStakingOperation does after the asset lookup: "amount" and
\* "syntax" are the errors thrown before the request, "send" the request
buildStakingOperation(r) ==
    IF IsDedicatedEthUnstakeV2Operation(r.assetId, r.action, r.mode, r.options)
    THEN "send"
    ELSE IF amountRejected(r.amount) THEN "amount"
    ELSE IF ~atomicIsInteger(r.amount, r.decimals) THEN "syntax"
    ELSE "send"

\* what createStakingOperationRequest does after the asset lookup
createStakingOperationRequest(r) ==
    IF IsDedicatedEthUnstakeV2Operation(r.assetId, r.action, r.mode, r.options)
    THEN "send"
    ELSE IF ~atomicIsInteger(r.amount, r.decimals) THEN "syntax"
    ELSE "send"

requestOutcome(r) ==
    IF r.kind = "external" THEN buildStakingOperation(r)
    ELSE createStakingOperationRequest(r)

endpoint(r) ==
    IF r.kind = "external" THEN "buildStakingOperation"
    ELSE "createStakingOperation"

\* copyOptions(options): a new map with the keys and values of options
copyOptions(options) == options

\* the object the caller passed as options, after the statements above
\* have run: buildStakingOperation assigns mode and amount to the map
\* copyOptions returned, createStakingOperationRequest assigns them to the
\* object it was given (mode first, then amount unless the request is a
\* native eth unstake v2 or toAtomicAmount throws)
callerOptions(r) ==
    IF r.kind = "external" THEN r.options
    ELSE IF createStakingOperationRequest(r) = "syntax"
    THEN [r.options EXCEPT !.mode = r.mode]
    ELSE newOptions([r EXCEPT !.options = copyOptions(r.options)])

NoOperation == [status |-> "none", wallet_id |-> Undefined, transactions |-> <<>>]

reqFrame == <<lastFetch, walletId0, backendList, firstPath, seenOrder, allSuperset, i, now,
              startTime, entered, timeoutSeconds, intervalSeconds, sweepLen,
              sweepLast, runLast, broadcasted, honest, instant>>

InitRequest ==
    /\ \E options \in CallerOptions :
          req \in [kind : {"external", "wallet"}, action : StakeActions,
                   amount : Amounts, assetId : AssetIds, mode : StakeModes,
                   options : {options}, held : {options},
                   context : {NoContext}, decimals : {-1},
                   modelDecimals : {-1}, calls : {<<>>}, checks : {<<>>},
                   error : {NoError}, payload : {NoPayload}]
    /\ model = NoOperation
    /\ transactions = <<>>
    /\ lastOp = "call"
    /\ lastFetch = NoFetch
    /\ walletId0 = Undefined
    /\ backendList = <<>>
    /\ firstPath = "none"
    /\ seenOrder = <<>>
    /\ allSuperset = TRUE
    /\ pc = "reqStart"
    /\ i = 0
    /\ now = 0
    /\ startTime = 0
    /\ entered = 0
    /\ timeoutSeconds = 0
    /\ intervalSeconds = 0
    /\ sweepLen = 0
    /\ sweepLast = -1
    /\ runLast = -1
    /\ broadcasted = {}
    /\ honest = TRUE
    /\ instant = TRUE

\* the first statement of build*Operation / create*: the validate call, or
\* nothing for a native eth unstake v2
ReqValidate ==
    /\ pc = "reqStart"
    /\ IF ~needsValidation(req)
       THEN /\ pc' = "validated"
            /\ req' = req
       ELSE IF req.action = "claim_stake" /\ claimRejected(req.assetId, req.mode)
       THEN /\ pc' = "error"
            /\ req' = [req EXCEPT !.error = RequestError("unsupported", req.amount)]
       ELSE \E ctx \in StakingContexts :
               LET outcome == validate(req.action, req.amount, ctx)
                   called == [req EXCEPT
                                !.calls = Append(@, "getStakingContext"),
                                !.checks = Append(@, "balance"),
                                !.context = ctx]
               IN IF outcome.kind = "none"
                  THEN /\ pc' = "validated"
                       /\ req' = called
                  ELSE /\ pc' = "error"
                       /\ req' = [called EXCEPT !.error = outcome]
    /\ lastOp' = "validate"
    /\ UNCHANGED <<model, transactions, reqFrame>>

\* the staking-context request of the validate call fails
ReqValidateThrows ==
    /\ pc = "reqStart"
    /\ needsValidation(req)
    /\ ~(req.action = "claim_stake" /\ claimRejected(req.assetId, req.mode))
    /\ pc' = "error"
    /\ req' = [req EXCEPT !.calls = Append(@, "getStakingContext"),
                          !.error = RequestError("remote", req.amount)]
    /\ lastOp' = "validate"
    /\ UNCHANGED <<model, transactions, reqFrame>>

\* createStakingOperation: the amount check before the create request
ReqAmountCheck ==
    /\ pc = "validated"
    /\ req.kind = "wallet"
    /\ IF IsDedicatedEthUnstakeV2Operation(req.assetId, req.action, req.mode,
                                           req.options)
       THEN /\ pc' = "amountChecked"
            /\ req' = [req EXCEPT !.context = NoContext]
       ELSE IF amountRejected(req.amount)
       THEN /\ pc' = "error"
            /\ req' = [req EXCEPT !.checks = Append(@, "amount"),
                                  !.context = NoContext,
                                  !.error = RequestError("amount", req.amount)]
       ELSE /\ pc' = "amountChecked"
            /\ req' = [req EXCEPT !.checks = Append(@, "amount"),
                                  !.context = NoContext]
    /\ lastOp' = "amountCheck"
    /\ UNCHANGED <<model, transactions, reqFrame>>

assetLookupDue ==
    \/ pc = "validated" /\ req.kind = "external"
    \/ pc = "amountChecked" /\ req.kind = "wallet"

\* Asset.fetch(networkId, assetId)
ReqAssetFetch ==
    /\ assetLookupDue
    /\ \E d \in AssetDecimals :
          req' = [req EXCEPT !.calls = Append(@, "getAsset"),
                             !.decimals = fromModel(d, req.assetId),
                             !.modelDecimals = d,
                             !.context = NoContext]
    /\ pc' = "assetFetched"
    /\ lastOp' = "assetFetch"
    /\ UNCHANGED <<model, transactions, reqFrame>>

ReqAssetFetchThrows ==
    /\ assetLookupDue
    /\ req' = [req EXCEPT !.calls = Append(@, "getAsset"),
                          !.context = NoContext,
                          !.error = RequestError("remote", req.amount)]
    /\ pc' = "error"
    /\ lastOp' = "assetFetch"
    /\ UNCHANGED <<model, transactions, reqFrame>>

\* the rest of buildStakingOperation / createStakingOperationRequest: the
\* options, the request and the StakingOperation built from the response
ReqBuild ==
    /\ pc = "assetFetched"
    /\ LET outcome == requestOutcome(req)
           held == [req EXCEPT !.held = callerOptions(req)]
           checked == IF req.kind = "external"
                         /\ ~IsDedicatedEthUnstakeV2Operation(
                                req.assetId, req.action, req.mode, req.options)
                      THEN [held EXCEPT !.checks = Append(@, "amount")]
                      ELSE held
       IN IF outcome = "send"
          THEN /\ \E s \in IF req.kind = "external" THEN BuiltSnapshots
                           ELSE CreatedSnapshots :
                     /\ model' = Constructor(s).model
                     /\ transactions' = Constructor(s).transactions
               /\ req' = [checked EXCEPT !.calls = Append(@, endpoint(req)),
                                         !.payload = StakingRequest(req)]
               /\ pc' = IF req.kind = "external" THEN "built" ELSE "created"
          ELSE /\ req' = [checked EXCEPT !.error = RequestError(outcome, req.amount)]
               /\ pc' = "error"
               /\ UNCHANGED <<model, transactions>>
    /\ lastOp' = "build"
    /\ UNCHANGED reqFrame

\* the build / create request fails
ReqBuildThrows ==
    /\ pc = "assetFetched"
    /\ requestOutcome(req) = "send"
    /\ req' = [req EXCEPT !.calls = Append(@, endpoint(req)),
                          !.payload = StakingRequest(req),
                          !.held = callerOptions(req),
                          !.checks = IF req.kind = "external"
                                        /\ ~IsDedicatedEthUnstakeV2Operation(
                                               req.assetId, req.action, req.mode,
                                               req.options)
                                     THEN Append(@, "amount") ELSE @,
                          !.error = RequestError("remote", req.amount)]
    /\ pc' = "error"
    /\ lastOp' = "build"
    /\ UNCHANGED <<model, transactions, reqFrame>>

NextRequest ==
    \/ ReqValidate
    \/ ReqValidateThrows
    \/ ReqAmountCheck
    \/ ReqAssetFetch
    \/ ReqAssetFetchThrows
    \/ ReqBuild
    \/ ReqBuildThrows

SpecRequest == InitRequest /\ [][NextRequest]_vars

(***************************************************************************)
(* SpecSigning: every way a transaction gets signed.  Either the caller    *)
(* holds an operation of an external address and calls sign and reload on  *)
(* it (the steps of Spec; wait adds nothing to these, its only step that   *)
(* touches the operation being a reload), or a wallet address runs the     *)
(* poller, which signs and broadcasts (the steps of SpecPoller).           *)
(***************************************************************************)
InitSigning == Init \/ InitPoller

NextSigning == Next \/ NextPoller

SpecSigning == InitSigning /\ [][NextSigning]_vars

(***************************************************************************)
(* Asset.toAtomicAmount and Asset.fromAtomicAmount on Decimal values.  A   *)
(* non-negative Decimal is held as decimal.js holds it: its significant    *)
(* digits c, most significant first, without leading or trailing zeros,    *)
(* and the power of ten x of its last digit (value = c * 10 ^ x; zero is   *)
(* the empty c with x = 0).  The Decimal constructor keeps every digit of  *)
(* its argument; times and dividedBy round their result to                 *)
(* Decimal.precision significant digits, half up.                          *)
(***************************************************************************)
\* most significant digits of an amount passed to toAtomicAmount
MaxDigits == 22

\* most fractional digits of an amount passed to toAtomicAmount
MaxFraction == 19

\* most decimals of an asset passed to the conversions
MaxAtomicDecimals == 18

\* Decimal.precision: the default of decimal.js, which nothing in the
\* program changes
DecimalPrecision == 20

Zeros(n) == [k \in 1..n |-> 0]

Nines(n) == [k \in 1..n |-> 9]

\* the digits 1, 0, ..., 0, l (n of them; the one digit l if n = 1)
Ends(n, l) == IF n = 1 THEN <<l>> ELSE <<1>> \o Zeros(n - 2) \o <<l>>

Coefficients ==
    {<<>>} \cup {Ends(n, l) : n \in 1..MaxDigits, l \in {1, 5}}
           \cup {Nines(n) : n \in 1..MaxDigits}

ZeroDecimal == [c |-> <<>>, x |-> 0]

\* the amounts handed to toAtomicAmount
Decimals ==
    {ZeroDecimal} \cup
    {[c |-> c, x |-> -f] : c \in Coefficients \ {<<>>}, f \in 0..MaxFraction}

RECURSIVE StripTrailingZeros(_, _)
\* a Decimal never keeps a trailing zero in its digits
StripTrailingZeros(c, x) ==
    IF c = <<>> THEN ZeroDecimal
    ELSE IF c[Len(c)] = 0 THEN StripTrailingZeros(SubSeq(c, 1, Len(c) - 1), x + 1)
    ELSE [c |-> c, x |-> x]

RECURSIVE StripLeadingZeros(_)
StripLeadingZeros(c) ==
    IF c # <<>> /\ c[1] = 0 THEN StripLeadingZeros(Tail(c)) ELSE c

RECURSIVE PlusOne(_)
\* the digits of c + 1
PlusOne(c) ==
    IF c = <<>> THEN <<1>>
    ELSE IF c[Len(c)] < 9 THEN [c EXCEPT ![Len(c)] = @ + 1]
    ELSE Append(PlusOne(SubSeq(c, 1, Len(c) - 1)), 0)

\* decimal.js finalise(result, Decimal.precision, ROUND_HALF_UP), applied
\* by times and dividedBy to their result
finalise(c, x) ==
    IF Len(c) <= DecimalPrecision THEN StripTrailingZeros(c, x)
    ELSE LET kept == SubSeq(c, 1, DecimalPrecision)
             rounded == IF c[DecimalPrecision + 1] >= 5 THEN PlusOne(kept) ELSE kept
         IN StripTrailingZeros(rounded, x + Len(c) - DecimalPrecision)

\* wholeAmount.times(new Decimal(10).pow(decimals))
timesPowerOfTen(d, decimals) == finalise(d.c, d.x + decimals)

\* atomicAmount.dividedBy(new Decimal(10).pow(decimals))
dividedByPowerOfTen(d, decimals) == finalise(d.c, d.x - decimals)

\* the result of BigInt(string): an integer by its digits, or the
\* SyntaxError BigInt throws on a string with a fractional part
NoBigInt == [ok |-> FALSE, digits |-> <<>>]

\* BigInt(atomicAmount.toFixed()): toFixed() prints every digit of the
\* Decimal in normal notation
BigIntOf(d) ==
    IF d.x >= 0 THEN [ok |-> TRUE, digits |-> d.c \o Zeros(d.x)] ELSE NoBigInt

\* Asset.toAtomicAmount(wholeAmount) of an asset with the given decimals
toAtomicAmountOf(d, decimals) == BigIntOf(timesPowerOfTen(d, decimals))

\* new Decimal(bigint.toString())
DecimalOf(digits) == StripTrailingZeros(StripLeadingZeros(digits), 0)

\* Asset.fromAtomicAmount(atomicAmount) of an asset with the given decimals
fromAtomicAmount(digits, decimals) == dividedByPowerOfTen(DecimalOf(digits), decimals)

\* SpecAsset: toAtomicAmount(whole), then fromAtomicAmount of its result
InitAsset ==
    /\ req \in [kind : {"convert"}, whole : Decimals,
                decimals : 0..MaxAtomicDecimals,
                atomic : {NoBigInt}, back : {ZeroDecimal}]
    /\ model = NoOperation
    /\ transactions = <<>>
    /\ lastOp = "call"
    /\ lastFetch = NoFetch
    /\ walletId0 = Undefined
    /\ backendList = <<>>
    /\ firstPath = "none"
    /\ seenOrder = <<>>
    /\ allSuperset = TRUE
    /\ pc = "whole"
    /\ i = 0
    /\ now = 0
    /\ startTime = 0
    /\ entered = 0
    /\ timeoutSeconds = 0
    /\ intervalSeconds = 0
    /\ sweepLen = 0
    /\ sweepLast = -1
    /\ runLast = -1
    /\ broadcasted = {}
    /\ honest = TRUE
    /\ instant = TRUE

AssetToAtomic ==
    /\ pc = "whole"
    /\ LET atomic == toAtomicAmountOf(req.whole, req.decimals)
       IN /\ req' = [req EXCEPT !.atomic = atomic]
          /\ pc' = IF atomic.ok THEN "atomic" ELSE "syntaxError"
    /\ lastOp' = "toAtomicAmount"
    /\ UNCHANGED <<model, transactions, reqFrame>>

AssetFromAtomic ==
    /\ pc = "atomic"
    /\ req' = [req EXCEPT !.back = fromAtomicAmount(req.atomic.digits, req.decimals)]
    /\ pc' = "back"
    /\ lastOp' = "fromAtomicAmount"
    /\ UNCHANGED <<model, transactions, reqFrame>>

NextAsset == AssetToAtomic \/ AssetFromAtomic

SpecAsset == InitAsset /\ [][NextAsset]_vars

(***************************************************************************)
(* The transport of every api client: one axios instance wrapped by        *)
(* axios-retry with retries = maxNetworkRetries and the retryCondition of  *)
(* the Coinbase constructor.  axios-retry is not part of the sources; it   *)
(* is modelled from its contract: a failed request is sent again if fewer  *)
(* than `retries` retries were made and retryCondition(error) holds, else  *)
(* the error is thrown to the caller.  One request is followed from its    *)
(* first sending to its response or its error.                             *)
(***************************************************************************)
\* largest maxNetworkRetries configured (the default is 3)
MaxRetries == 3

\* error.config.method as axios holds it, in either case
HttpMethods == {"get", "GET", "post", "POST"}

toUpperCase(method) ==
    CASE method = "get" -> "GET"
      [] method = "post" -> "POST"
      [] OTHER -> method

\* response statuses of a failed request
ErrorStatuses == {400, 404, 429, 500, 501, 502, 503, 504}

\* a failed request: with a response and its status, or without a response
\* (network error, timeout of the connection)
HttpErrors ==
    {[response |-> FALSE, status |-> 0]}
        \cup [response : {TRUE}, status : ErrorStatuses]

NoHttpError == [response |-> FALSE, status |-> -1]

\* the array literal on the right of `in`
RetryStatusArray == <<500, 502, 503, 504>>

\* key in array: the array has a property named key, that is, key is one of
\* its indices 0 .. length - 1 (no number is the property "length")
In(key, array) == key \in 0..(Len(array) - 1)

\* error.response?.status || 0
statusOrZero(error) == IF error.response THEN error.status ELSE 0

retryCondition(method, error) ==
    /\ toUpperCase(method) = "GET"
    /\ In(statusOrZero(error), RetryStatusArray)

InitRetry ==
    /\ req \in [kind : {"http"}, method : HttpMethods, retries : 0..MaxRetries,
                retryCount : {0}, sent : {1}, error : {NoHttpError}]
    /\ model = NoOperation
    /\ transactions = <<>>
    /\ lastOp = "request"
    /\ lastFetch = NoFetch
    /\ walletId0 = Undefined
    /\ backendList = <<>>
    /\ firstPath = "none"
    /\ seenOrder = <<>>
    /\ allSuperset = TRUE
    /\ pc = "request"
    /\ i = 0
    /\ now = 0
    /\ startTime = 0
    /\ entered = 0
    /\ timeoutSeconds = 0
    /\ intervalSeconds = 0
    /\ sweepLen = 0
    /\ sweepLast = -1
    /\ runLast = -1
    /\ broadcasted = {}
    /\ honest = TRUE
    /\ instant = TRUE

\* the request in flight is answered
HttpRespond ==
    /\ pc = "request"
    /\ pc' = "done"
    /\ lastOp' = "response"
    /\ UNCHANGED <<req, model, transactions, reqFrame>>

\* the request in flight fails and is sent again
HttpRetry ==
    /\ pc = "request"
    /\ \E error \in HttpErrors :
          /\ req.retryCount < req.retries
          /\ retryCondition(req.method, error)
          /\ req' = [req EXCEPT !.retryCount = @ + 1, !.sent = @ + 1,
                                !.error = error]
    /\ pc' = "request"
    /\ lastOp' = "retry"
    /\ UNCHANGED <<model, transactions, reqFrame>>

\* the request in flight fails and its error is thrown to the caller
HttpReject ==
    /\ pc = "request"
    /\ \E error \in HttpErrors :
          /\ ~(req.retryCount < req.retries /\ retryCondition(req.method, error))
          /\ req' = [req EXCEPT !.error = error]
    /\ pc' = "failed"
    /\ lastOp' = "reject"
    /\ UNCHANGED <<model, transactions, reqFrame>>

NextRetry == HttpRespond \/ HttpRetry \/ HttpReject

SpecRetry == InitRetry /\ [][NextRetry]_vars

(***************************************************************************)
(* The two option builders.  One builder object of either class is built,  *)
(* fed by add calls and built from any number of times, each time with an  *)
(* options map of the caller's.  A map is a record of its keys, "absent"   *)
(* for a key it does not hold.  The eth asset that                         *)
(* ExecutionLayerWithdrawalOptionsBuilder.build looks up has the same      *)
(* decimals at every lookup.  result is the map the last build returned    *)
(* and previous the one the build before it returned, both since the last  *)
(* add call.                                                               *)
(***************************************************************************)
\* most add calls made on one builder
MaxAdds == 3

PubKeys == {"k1", "k2"}

\* the amounts passed to addValidatorWithdrawal, in tenths
WithdrawalAmounts == {5, 10}

\* the caller's maps: with or without a key of their own, and with all or
\* none of the keys the builders compute
BuilderOptions ==
    {o \in [unstake_type : {"absent", "caller"},
            validator_pub_keys : {"absent", "caller"},
            validator_unstake_amounts : {"absent", "caller"},
            extra : {"absent", "caller"}] :
        /\ o.validator_pub_keys = o.unstake_type
        /\ o.validator_unstake_amounts = o.unstake_type}

\* options = {} : the default of build's parameter
EmptyOptions == [unstake_type |-> "absent", validator_pub_keys |-> "absent",
                 validator_unstake_amounts |-> "absent", extra |-> "absent"]

\* no options map has been returned
NoOptions == [unstake_type |-> "none", validator_pub_keys |-> "none",
              validator_unstake_amounts |-> "none", extra |-> "none"]

addValidator_Always(validatorPubKeys, pubKey) == Append(validatorPubKeys, pubKey)

\* ConsensusLayerExitOptionBuilder.addValidator
addValidator(validatorPubKeys, pubKey) ==
    IF pubKey \in Range(validatorPubKeys) THEN validatorPubKeys
    ELSE Append(validatorPubKeys, pubKey)

\* ExecutionLayerWithdrawalOptionsBuilder.addValidatorWithdrawal:
\* this.validatorAmounts[pubKey] = amount, the object held as the sequence
\* of its entries in insertion order
addValidatorWithdrawal(validatorAmounts, pubKey, amount) ==
    IF \E k \in DOMAIN validatorAmounts : validatorAmounts[k].pubKey = pubKey
    THEN [k \in DOMAIN validatorAmounts |->
            IF validatorAmounts[k].pubKey = pubKey
            THEN [pubKey |-> pubKey, amount |-> amount]
            ELSE validatorAmounts[k]]
    ELSE Append(validatorAmounts, [pubKey |-> pubKey, amount |-> amount])

RECURSIVE join(_, _)
\* Array.prototype.join(separator) on an array of strings
join(strings, separator) ==
    IF strings = <<>> THEN ""
    ELSE IF Len(strings) = 1 THEN strings[1]
    ELSE strings[1] \o separator \o join(Tail(strings), separator)

\* JSON.stringify of an object whose values are strings
stringify(entries) ==
    "{" \o join([k \in DOMAIN entries |->
                    "\"" \o entries[k].pubKey \o "\":\"" \o entries[k].value \o "\""],
                ",") \o "}"

\* the amounts of build's loop in atomic units, as strings
atomicAmounts(validatorAmounts, decimals) ==
    [k \in DOMAIN validatorAmounts |->
        [pubKey |-> validatorAmounts[k].pubKey,
         value |-> ToString(toAtomicAmount(validatorAmounts[k].amount, decimals))]]

\* toAtomicAmount throws on none of the amounts
allAtomic(validatorAmounts, decimals) ==
    \A k \in DOMAIN validatorAmounts :
        atomicIsInteger(validatorAmounts[k].amount, decimals)

consensusLayerExitOptions(validatorPubKeys) ==
    [unstake_type |-> "consensus",
     validator_pub_keys |-> join(validatorPubKeys, ","),
     validator_unstake_amounts |-> "absent",
     extra |-> "absent"]

executionLayerWithdrawalOptions(validatorAmounts, decimals) ==
    [unstake_type |-> "execution",
     validator_pub_keys |-> "absent",
     validator_unstake_amounts |-> stringify(atomicAmounts(validatorAmounts, decimals)),
     extra |-> "absent"]

\* the keys of source written over those of target
assignKeys(target, source) ==
    [key \in DOMAIN target |->
        IF source[key] # "absent" THEN source[key] ELSE target[key]]

assign_IntoOptions(options, computed) ==
    [result |-> assignKeys(options, computed),
     options |-> assignKeys(options, computed)]

\* Object.assign({}, options, computed): the object returned and the
\* caller's options object after the call
assign(options, computed) ==
    [result |-> assignKeys(assignKeys(EmptyOptions, options), computed),
     options |-> options]

InitBuilder ==
    /\ req \in [kind : {"consensus", "execution"}, validatorPubKeys : {<<>>},
                validatorAmounts : {<<>>}, added : {<<>>},
                decimals : AssetDecimals, options : {EmptyOptions},
                passed : {EmptyOptions}, result : {NoOptions},
                previous : {NoOptions}]
    /\ model = NoOperation
    /\ transactions = <<>>
    /\ lastOp = "constructor"
    /\ lastFetch = NoFetch
    /\ walletId0 = Undefined
    /\ backendList = <<>>
    /\ firstPath = "none"
    /\ seenOrder = <<>>
    /\ allSuperset = TRUE
    /\ pc = "builder"
    /\ i = 0
    /\ now = 0
    /\ startTime = 0
    /\ entered = 0
    /\ timeoutSeconds = 0
    /\ intervalSeconds = 0
    /\ sweepLen = 0
    /\ sweepLast = -1
    /\ runLast = -1
    /\ broadcasted = {}
    /\ honest = TRUE
    /\ instant = TRUE

\* builder.addValidator(pubKey)
AddValidator ==
    /\ pc = "builder"
    /\ req.kind = "consensus"
    /\ Len(req.added) < MaxAdds
    /\ \E pubKey \in PubKeys :
          req' = [req EXCEPT
                    !.validatorPubKeys = addValidator(@, pubKey),
                    !.added = Append(@, pubKey),
                    !.previous = NoOptions,
                    !.result = NoOptions]
    /\ lastOp' = "addValidator"
    /\ UNCHANGED <<model, transactions, pc, reqFrame>>

\* builder.addValidatorWithdrawal(pubKey, amount)
AddValidatorWithdrawal ==
    /\ pc = "builder"
    /\ req.kind = "execution"
    /\ Len(req.added) < MaxAdds
    /\ \E pubKey \in PubKeys, amount \in WithdrawalAmounts :
          req' = [req EXCEPT
                    !.validatorAmounts = addValidatorWithdrawal(@, pubKey, amount),
                    !.added = Append(@, pubKey),
                    !.previous = NoOptions,
                    !.result = NoOptions]
    /\ lastOp' = "addValidatorWithdrawal"
    /\ UNCHANGED <<model, transactions, pc, reqFrame>>

\* ConsensusLayerExitOptionBuilder.build(options)
BuildConsensus ==
    /\ pc = "builder"
    /\ req.kind = "consensus"
    /\ \E options \in BuilderOptions :
          LET built == assign(options, consensusLayerExitOptions(req.validatorPubKeys))
          IN req' = [req EXCEPT !.passed = options,
                                !.options = built.options,
                                !.result = built.result,
                                !.previous = req.result]
    /\ lastOp' = "build"
    /\ UNCHANGED <<model, transactions, pc, reqFrame>>

\* ExecutionLayerWithdrawalOptionsBuilder.build(options): the asset lookup,
\* the conversion of every amount (which throws on an amount that is no
\* whole number of atomic units), then the merge
BuildExecution ==
    /\ pc = "builder"
    /\ req.kind = "execution"
    /\ \E options \in BuilderOptions :
          IF allAtomic(req.validatorAmounts, req.decimals)
          THEN LET built == assign(options,
                               executionLayerWithdrawalOptions(req.validatorAmounts,
                                                               req.decimals))
               IN /\ req' = [req EXCEPT !.passed = options,
                                        !.options = built.options,
                                        !.result = built.result,
                                        !.previous = req.result]
                  /\ lastOp' = "build"
          ELSE /\ req' = [req EXCEPT !.passed = options, !.options = options]
               /\ lastOp' = "buildError"
    /\ UNCHANGED <<model, transactions, pc, reqFrame>>

\* the asset lookup of ExecutionLayerWithdrawalOptionsBuilder.build fails
BuildExecutionThrows ==
    /\ pc = "builder"
    /\ req.kind = "execution"
    /\ \E options \in BuilderOptions :
          req' = [req EXCEPT !.passed = options, !.options = options]
    /\ lastOp' = "buildError"
    /\ UNCHANGED <<model, transactions, pc, reqFrame>>

NextBuilder ==
    \/ AddValidator
    \/ AddValidatorWithdrawal
    \/ BuildConsensus
    \/ BuildExecution
    \/ BuildExecutionThrows

SpecBuilder == InitBuilder /\ [][NextBuilder]_vars

(***************************************************************************)
(* Every place where an options map of the caller's meets computed keys:   *)
(* a build of an option builder, or a build* / create* request.            *)
(***************************************************************************)
InitOptions == InitRequest \/ InitBuilder

NextOptions == NextRequest \/ NextBuilder

SpecOptions == InitOptions /\ [][NextOptions]_vars

(***************************************************************************)
(* The mutators of one StakingOperation held by the caller: reload, sign   *)
(* and wait, called in any order on an operation built from any snapshot.  *)
(***************************************************************************)
InitMutators == InitWait

NextMutators == NextStatus \/ NextWait

SpecMutators == InitMutators /\ [][NextMutators]_vars

(***************************************************************************)
(* Every call of the subsystem that talks to the backend: a wait on an     *)
(* operation held by the caller, a run of the custodial poller, or a       *)
(* build* / create* request.                                               *)
(***************************************************************************)
InitCalls == InitWait \/ InitPoller \/ InitRequest

NextCalls == NextWait \/ NextPoller \/ NextRequest

SpecCalls == InitCalls /\ [][NextCalls]_vars

(***************************************************************************)
(* Claims about the reconciliation of the transaction list (Spec).         *)
(***************************************************************************)

\* C1 (original statement): when every reload so far fetched a list that is
\* a superset, by unsigned payload, of the local list, the local list after
\* a reload holds each remote transaction exactly once, in first-seen
\* order: its payloads are the payloads seen so far, each once, in the
\* order in which the snapshots first showed them.
C1_IdempotentReconciliation ==
    (lastOp = "reload" /\ lastFetch.outcome = "ok" /\ allSuperset)
        => PayloadSeq(transactions) = seenOrder

\* C2: a reload leaves every transaction that sign(key) has signed where it
\* is and as it is (same index, same payload, still signed), and adds no
\* second entry with its payload, whatever the fetched snapshot reports.
C2_LocallySignedKept ==
    [][lastOp' = "reload" =>
        \A k \in DOMAIN transactions :
            transactions[k].signs > 0 =>
                /\ k \in DOMAIN transactions'
                /\ transactions'[k] = transactions[k]
                /\ isSigned(transactions'[k])
                /\ Count(transactions[k].unsigned_payload, transactions')
                     = Count(transactions[k].unsigned_payload, transactions)]_vars

\* C2 witness: a reload has appended to a list that holds a transaction
\* signed by sign(key).
C2_Witness ==
    /\ lastOp = "reload"
    /\ lastFetch.added > 0
    /\ \E k \in DOMAIN transactions : transactions[k].signs > 0

\* C3: the list before a reload is a prefix of the list after it, for every
\* outcome of the reload and every fetched snapshot.
C3_AppendOnly ==
    [][lastOp' = "reload" => IsPrefix(transactions, transactions')]_vars

\* C3 witness: a reload has appended new transactions behind a non-empty
\* list.
C3_Witness ==
    /\ lastOp = "reload"
    /\ lastFetch.added > 0
    /\ Len(transactions) > lastFetch.added

(***************************************************************************)
(* Claims about status and wallet id under reload (SpecStatus).            *)
(***************************************************************************)

\* C4 (original statement): once the status is Complete or Failed, no step
\* changes it.
C4_TerminalAbsorbing ==
    [][isTerminalState(model) => getStatus(model') = getStatus(model)]_vars

\* C4 (amended): reload makes no terminal-state check of its own: after a
\* reload that fetched, the status is the status of the fetched snapshot,
\* terminal before or not; a reload that threw or made no request leaves
\* the status as it was.
C4_StatusFollowsSnapshot ==
    [][lastOp' = "reload" =>
        getStatus(model') = IF lastFetch'.outcome = "ok"
                            THEN lastFetch'.status
                            ELSE getStatus(model)]_vars

\* C4 witness: a reload has taken a Complete operation back to a
\* non-terminal status.
C4_Witness ==
    /\ lastOp = "reload"
    /\ lastFetch.outcome = "ok"
    /\ lastFetch.before = "complete"
    /\ getStatus(model) = "initialized"

C6_RunWideIncreasing ==
    [][lastOp' = "broadcast" => runLast' > runLast]_vars

\* C6 (amended): within one pass of the for loop the transaction_index
\* values submitted are strictly increasing; every pass starts again at
\* index 0.
C6_IncreasingWithinPass ==
    [][/\ lastOp' = "broadcast" => (sweepLast' > sweepLast /\ sweepLast' = i)
       /\ (lastOp' = "loopTop" /\ pc' = "forLoop") => (i' = 0 /\ sweepLast' = -1)]_vars

\* C6 witness: index 1 has been submitted in a pass of a run in which two
\* different transactions were broadcast.
C6_Witness ==
    /\ lastOp = "broadcast"
    /\ sweepLast = 1
    /\ broadcasted = Payloads

\* C7 (original statement): within one run no payload is submitted to the
\* broadcast endpoint twice, whatever the snapshots report.
C7_AtMostOnce ==
    [][lastOp' = "broadcast" => broadcasted' # broadcasted]_vars

\* C7 (amended): no payload is submitted twice as long as every snapshot
\* returned by create, broadcast and reload so far showed every payload
\* already broadcast as signed.
C7_AtMostOnceIfReportedSigned ==
    [][(lastOp' = "broadcast" /\ honest) => broadcasted' # broadcasted]_vars

\* C7 witness: in a later pass, before any broadcast of that pass, the
\* poller has stepped over a transaction it broadcast earlier in the run,
\* all snapshots having shown broadcast payloads as signed.
C7_Witness ==
    /\ lastOp = "skip"
    /\ honest
    /\ runLast >= 0
    /\ sweepLast = -1
    /\ lastFetch.outcome = "ok"
    /\ transactions[i].unsigned_payload \in broadcasted

\* C8: the poller returns only straight after a reload that fetched, with
\* the operation in a terminal state; the timeout error is raised only at
\* the loop-top check with the deadline elapsed; and when the loop-top
\* check finds the time since loop entry at or past timeoutSeconds the
\* poller raises the timeout error.
C8_ReturnsOnlyTerminal ==
    /\ [](/\ pc = "returned" =>
               /\ lastOp = "reload"
               /\ lastFetch.outcome = "ok"
               /\ isTerminalState(model)
               /\ getStatus(model) = lastFetch.status
          /\ pc = "timeout" =>
               /\ lastOp = "loopTop"
               /\ now - entered >= timeoutSeconds)
    /\ [][(pc = "loopTop" /\ now - entered >= timeoutSeconds)
             => pc' = "timeout"]_vars

\* C8 witness: the poller has returned a terminal operation after having
\* broadcast.
C8_Witness ==
    /\ pc = "returned"
    /\ runLast >= 0
    /\ isTerminalState(model)

WaitRunning == pc \in {"waitTop", "waitReload", "waitDelay"}

\* C10: wait raises the timeout error no earlier than timeoutSeconds after
\* loop entry; with intervalSeconds <= timeoutSeconds and reloads that take
\* no time, a wait that has not met a terminal status is over before
\* 2 * timeoutSeconds: it is neither still polling nor timing out at or
\* after that; and the deadline is counted from the one startTime taken at
\* loop entry.
C10_WaitTimeoutWindow ==
    /\ pc = "timeout" => now - entered >= timeoutSeconds
    /\ ((WaitRunning \/ pc = "timeout") /\ instant
            /\ intervalSeconds <= timeoutSeconds)
          => now - entered < 2 * timeoutSeconds
    /\ (WaitRunning \/ pc \in {"timeout", "returned"}) => startTime = entered

\* C10 witness: wait(intervalSeconds = 1, timeoutSeconds = 3), called at
\* time 1 against reloads that take no time, has raised the timeout error
\* 3 seconds after loop entry.
C10_Witness ==
    /\ pc = "timeout"
    /\ instant
    /\ intervalSeconds = 1
    /\ timeoutSeconds = 3
    /\ entered = 1
    /\ now - entered = 3

\* C11: wait called on a StakingOperation that carries a wallet id fails at
\* once: the call ends in the error without a reload, the stored snapshot,
\* the transaction list and the record of the last reload are unchanged;
\* and a wait that went on to its loop was called without a wallet id.
C11_WaitRejectsWalletOperation ==
    [][(pc = "idle" /\ lastOp' = "waitEnter")
          => IF getWalletID(model) \in {"", "w1"}
             THEN /\ pc' = "error"
                  /\ model' = model
                  /\ transactions' = transactions
                  /\ lastFetch' = lastFetch
                  /\ lastFetch'.outcome = "none"
             ELSE pc' = "waitTop"]_vars

\* C11 witness: wait has been rejected on an operation with wallet id "w1"
\* that holds a transaction.
C11_Witness ==
    /\ pc = "error"
    /\ lastOp = "waitEnter"
    /\ getWalletID(model) = "w1"
    /\ Len(transactions) = 1
    /\ lastFetch = NoFetch

(***************************************************************************)
(* Claims about staking requests (SpecRequest).                            *)
(***************************************************************************)
\* the amount-exempt rule as the claims state it
StatedExempt ==
    /\ req.action = "unstake"
    /\ req.assetId = "eth"
    /\ req.mode = "native"
    /\ req.options.unstake_type \in {"execution", "consensus"}

\* the string s is the decimal numeral of amount * 10 ^ decimals
IsAtomicString(s, amount, decimals) ==
    \E n \in (-10 * (10 ^ decimals) * MaxAmount)..(10 * (10 ^ decimals) * MaxAmount) :
        /\ n * 10 = amount * (10 ^ decimals)
        /\ s = ToString(n)

\* C12 (original statement): the options sent to the build / create
\* endpoint have no amount field if and only if the request is an unstake
\* of eth in native mode with unstake_type execution or consensus; in every
\* other case amount is the atomic amount as a string.
C12_AmountOmittedIffExempt ==
    req.payload.sent =>
        /\ (req.payload.amount = "absent") <=> StatedExempt
        /\ ~StatedExempt =>
              IsAtomicString(req.payload.amount, req.amount, req.decimals)

\* C12 (amended): for an amount-exempt request no amount is computed and
\* the options are sent with the amount field as the caller supplied it
\* (none if the caller's options had none); in every other case amount is
\* set to the atomic amount as a string, over whatever the caller supplied.
C12_AmountComputedIffNotExempt ==
    req.payload.sent =>
        IF StatedExempt
        THEN req.payload.amount = req.options.amount
        ELSE IsAtomicString(req.payload.amount, req.amount, req.decimals)

\* C12 witness: a wallet address has sent an amount-exempt create request
\* without amount, the caller having asked for 1.5 units.
C12_Witness ==
    /\ pc = "created"
    /\ StatedExempt
    /\ req.kind = "wallet"
    /\ req.amount = 15
    /\ req.payload.sent
    /\ req.payload.amount = "absent"

BuildCalls == {"buildStakingOperation", "createStakingOperation"}

BuildCalled == \E k \in DOMAIN req.calls : req.calls[k] \in BuildCalls

StatedAvailable(ctx) ==
    CASE req.action = "stake" -> ctx.stakeableBalance
      [] req.action = "unstake" -> ctx.unstakeableBalance
      [] req.action = "claim_stake" -> ctx.claimableBalance

ValidationFailed ==
    lastOp = "validate" /\ pc = "error" /\ req.error.kind # "remote"

ValidationPassedOnBalance ==
    lastOp = "validate" /\ pc = "validated" /\ req.checks = <<"balance">>

InsufficiencyReported ==
    /\ req.error.kind = "insufficient"
    /\ req.error.requested = req.amount
    /\ req.error.available = StatedAvailable(req.context)
    /\ req.error.requested > req.error.available

\* C14 (original statement): each of the three validate calls succeeds for
\* every amount up to and including the available balance of its category,
\* and fails only for an amount above it, with an insufficiency error that
\* carries the requested and the available amount.
C14_BalanceGateBoundary ==
    /\ ValidationPassedOnBalance => req.amount <= StatedAvailable(req.context)
    /\ ValidationFailed => InsufficiencyReported

\* C14 (amended): as stated, except that validateCanClaimStake rejects
\* assetId eth in native mode before it looks at any balance, whatever the
\* amount; that is its only failure for an amount within the balance.
C14_BalanceGateBoundaryButNativeClaim ==
    /\ ValidationPassedOnBalance => req.amount <= StatedAvailable(req.context)
    /\ ValidationFailed =>
          IF req.action = "claim_stake" /\ req.assetId = "eth" /\ req.mode = "native"
          THEN req.error.kind = "unsupported" /\ req.calls = <<>>
          ELSE InsufficiencyReported

\* C14 witness: validateCanUnstake has passed with the amount equal to the
\* unstakeable balance, 0.5.
C14_Witness ==
    /\ ValidationPassedOnBalance
    /\ req.action = "unstake"
    /\ req.amount = 5
    /\ req.context.unstakeableBalance = 5

\* C15: the balance gate runs before any state-mutating call: a request
\* whose amount exceeds the balance the staking-context call reported has
\* ended in the error without a build / create request (the broadcast
\* endpoint is called only by the poller, which starts from a created
\* operation); a build / create request was preceded by the balance check
\* unless the request is an amount-exempt unstake; and a run that has
\* failed issues nothing more.
C15_BalanceGateFirst ==
    /\ []((req.context # NoContext /\ req.amount > StatedAvailable(req.context)) =>
              /\ pc = "error"
              /\ req.calls = <<"getStakingContext">>
              /\ ~req.payload.sent)
    /\ [](BuildCalled =>
              \/ req.calls[1] = "getStakingContext" /\ req.checks[1] = "balance"
              \/ req.action = "unstake" /\ StatedExempt)
    /\ [][pc = "error" => req' = req]_vars

\* C15 witness: createStake(1, ...) with a stakeable balance of 0.5 has
\* failed after the staking-context call alone.
C15_Witness ==
    /\ pc = "error"
    /\ req.kind = "wallet"
    /\ req.action = "stake"
    /\ req.amount = 10
    /\ req.context.stakeableBalance = 5
    /\ req.error.kind = "insufficient"
    /\ req.calls = <<"getStakingContext">>

C17_ValidationSkippedIffExempt ==
    IF req.action = "unstake" /\ StatedExempt
    THEN /\ req.checks = <<>>
         /\ \A k \in DOMAIN req.calls : req.calls[k] # "getStakingContext"
         /\ req.error.kind \in {"none", "remote"}
    ELSE BuildCalled =>
             /\ req.checks = <<"balance", "amount">>
             /\ req.calls[1] = "getStakingContext"
             /\ req.calls[Len(req.calls)] \in BuildCalls

\* C17 witness: an amount-exempt buildUnstakeOperation with amount 0 has
\* returned its operation after the asset lookup and the build request.
C17_Witness ==
    /\ pc = "built"
    /\ req.action = "unstake"
    /\ StatedExempt
    /\ req.amount = 0
    /\ req.calls = <<"getAsset", "buildStakingOperation">>
    /\ req.checks = <<>>

ValidationError == req.error.kind \in {"amount", "insufficient", "unsupported"}

NoRepeat(s) == \A j, k \in DOMAIN s : s[j] = s[k] => j = k

\* C18 (original statement): a run that ends with a validation error
\* (non-positive amount, insufficient balance, disallowed mode / action
\* combination) has issued no backend call of any kind.
C18_ValidationBeforeAnyCall ==
    (pc = "error" /\ ValidationError) => req.calls = <<>>

\* C18 (amended): a validation error is raised before any build / create
\* call and nothing is retried, but only the disallowed combination
\* (claim stake of eth in native mode) is raised without a backend call:
\* the insufficiency error follows the staking-context call, and the
\* amount error follows the staking-context call and, on an external
\* address, the asset lookup as well.
C18_ValidationBeforeBuildCall ==
    /\ []((pc = "error" /\ ValidationError) =>
              /\ ~BuildCalled
              /\ NoRepeat(req.calls)
              /\ NoRepeat(req.checks)
              /\ req.calls =
                    CASE req.error.kind = "unsupported" -> <<>>
                      [] req.error.kind = "insufficient" -> <<"getStakingContext">>
                      [] req.error.kind = "amount" ->
                            IF req.kind = "wallet"
                            THEN <<"getStakingContext">>
                            ELSE <<"getStakingContext", "getAsset">>)
    /\ [][(pc = "reqStart" /\ req.action = "claim_stake" /\ req.assetId = "eth"
             /\ req.mode = "native")
          => (pc' = "error" /\ req'.error.kind = "unsupported"
                /\ req'.calls = <<>>)]_vars

\* C18 witness: createStake(-1, ...) has been rejected by the amount check
\* after the staking-context call.
C18_Witness ==
    /\ pc = "error"
    /\ req.kind = "wallet"
    /\ req.action = "stake"
    /\ req.amount = -10
    /\ req.error.kind = "amount"
    /\ req.calls = <<"getStakingContext">>

(***************************************************************************)
(* Claims about signing.                                                   *)
(***************************************************************************)
StaysSigned ==
    \A k \in DOMAIN transactions :
        isSigned(transactions[k]) =>
            (k \in DOMAIN transactions' /\ transactions'[k] = transactions[k])

Unsigned(txs) == {k \in DOMAIN txs : ~isSigned(txs[k])}

FirstUnsigned(txs) == CHOOSE k \in Unsigned(txs) : \A j \in Unsigned(txs) : k <= j

\* C20: sign(key) signs in list order and stops at the first failure: when
\* it fails at the unsigned transaction of index k, every transaction
\* before k is signed, each one that was unsigned by one signing call, and
\* every transaction from k on is as it was; a sign that does not fail
\* leaves every transaction signed; and no sign, first or repeated, touches
\* a transaction that was already signed.
C20_SignStopsAtFirstFailure ==
    [][(lastOp' \in {"sign", "signError"}) =>
          /\ Len(transactions') = Len(transactions)
          /\ \A j \in DOMAIN transactions :
                /\ isSigned(transactions[j]) => transactions'[j] = transactions[j]
                /\ (~isSigned(transactions[j]) /\ isSigned(transactions'[j])) =>
                      transactions'[j] = [transactions[j] EXCEPT
                                             !.signed = TRUE, !.signs = @ + 1]
          /\ lastOp' = "sign" => Unsigned(transactions') = {}
          /\ lastOp' = "signError" =>
                /\ Unsigned(transactions') # {}
                /\ LET k == FirstUnsigned(transactions')
                   IN /\ ~isSigned(transactions[k])
                      /\ \A j \in DOMAIN transactions :
                            j >= k => transactions'[j] = transactions[j]]_vars

\* C20 witness: sign has failed at index 2 after signing index 1, with a
\* third transaction still unsigned behind it.
C20_Witness ==
    /\ lastOp = "signError"
    /\ Len(transactions) = 3
    /\ transactions[1].signed /\ transactions[1].signs = 1
    /\ ~transactions[2].signed
    /\ ~transactions[3].signed


(***************************************************************************)
(* Claims about the calls that talk to the backend (SpecCalls).            *)
(***************************************************************************)
\* a reload inside wait or inside the poller is the step being taken
PollReloadStep == pc \in {"waitReload", "forLoop"} /\ lastOp' = "reload"

ReloadFailStep == lastOp' \in {"reload", "reloadError"} /\ lastFetch'.outcome = "error"

\* a step in which a build / create request, or a request made on the way
\* to it, fails
RequestFailStep ==
    /\ req.kind \in {"external", "wallet"}
    /\ req.error.kind = "none"
    /\ req'.error.kind = "remote"

\* C22: a reload whose request fails made that one request and stored
\* nothing; a wait or poller run in which a reload or a broadcast fails, and
\* a build / create call in which a backend request fails, ends in that
\* error at that step, having made exactly that one request in the step; a
\* call that has ended in an error or in the timeout error takes no further
\* step, so no request is repeated, and no error turns into a timeout.
C22_RemoteErrorsPropagate ==
    /\ [][ReloadFailStep
            => /\ pc' = "error"
               /\ lastFetch'.path = ReloadPath(getWalletID(model))
               /\ lastFetch'.path # "none"
               /\ model' = model
               /\ transactions' = transactions]_vars
    /\ [][lastOp' = "broadcastError"
            => /\ pc' = "error"
               /\ model' = model
               /\ lastFetch' = lastFetch
               /\ broadcasted' = broadcasted]_vars
    /\ [][RequestFailStep
            => /\ pc' = "error"
               /\ Len(req'.calls) = Len(req.calls) + 1
               /\ model' = model]_vars
    /\ [][(pc = "error" \/ pc = "timeout") => (vars' = vars)]_vars

\* C22 witness: the poller has ended in the error of a failed reload, after
\* a broadcast, well before its deadline.
C22_Witness ==
    /\ pc = "error"
    /\ lastOp = "reloadError"
    /\ lastFetch.outcome = "error"
    /\ lastFetch.path = "wallet"
    /\ broadcasted # {}
    /\ now - startTime < timeoutSeconds


(***************************************************************************)
(* Claims about the mutators of one operation (SpecMutators).              *)
(***************************************************************************)
\* a reload (called directly or by wait) or a sign call is the step taken
MutatorStep == lastOp' \in {"reload", "sign", "signError"}

NamedAssetIds == AssetIds \cup {"gwei"}

\* the decimals of the asset the caller named, as the claim states them:
\* none for wei, GWEI_DECIMALS for gwei, the backend's for any other
StatedDecimals ==
    IF req.assetId = "wei" THEN 0
    ELSE IF req.assetId = "gwei" THEN 9
    ELSE req.modelDecimals

Representable == -req.whole.x <= req.decimals

\* the Decimal 1.5
OneAndAHalf == [c |-> <<1, 5>>, x |-> -1]

\* C25: for every asset decimals and every non-negative amount with no more
\* fractional digits than that, toAtomicAmount returns an integer and
\* fromAtomicAmount of it is the amount again; and toAtomicAmount of 1.5
\* under 18 decimals is the integer 1500000000000000000.
C25_AtomicRoundTrip ==
    /\ Representable => pc # "syntaxError"
    /\ (Representable /\ pc = "back") => req.back = req.whole
    /\ toAtomicAmountOf(OneAndAHalf, 18)
          = [ok |-> TRUE, digits |-> <<1, 5>> \o Zeros(17)]

\* the integer part of d, by its digits as BigInt holds them
IntegerPart(d) ==
    IF d.x >= 0 THEN d.c \o Zeros(d.x)
    ELSE IF Len(d.c) + d.x <= 0 THEN <<>>
    ELSE SubSeq(d.c, 1, Len(d.c) + d.x)

\* C26: toAtomicAmount never fails on a non-negative amount: it returns
\* the integer part of amount * 10 ^ decimals, also for an amount with
\* more fractional digits than the asset has decimals.
C26_ToAtomicTruncates ==
    /\ pc # "syntaxError"
    /\ pc \in {"atomic", "back"} =>
          req.atomic.digits
             = IntegerPart([c |-> req.whole.c, x |-> req.whole.x + req.decimals])


(***************************************************************************)
(* Claims about the option builders (SpecBuilder).                         *)
(***************************************************************************)
\* the strings of s written one after the other with commas between them
CommaSeparated(s) ==
    IF s = <<>> THEN ""
    ELSE IF Len(s) = 1 THEN s[1]
    ELSE IF Len(s) = 2 THEN s[1] \o "," \o s[2]
    ELSE join(s, ",")

\* the last step was a build that returned an options map
Built == lastOp = "build"

\* C27: whatever addValidator calls were made, in whatever order and with
\* whatever repetitions, the map returned by
\* ConsensusLayerExitOptionBuilder.build holds unstake_type = consensus and
\* validator_pub_keys = the distinct keys added, in the order of their first
\* addition, separated by commas.
C27_ConsensusBuilderDedups ==
    (Built /\ req.kind = "consensus") =>
        /\ req.result.unstake_type = "consensus"
        /\ req.result.validator_pub_keys = CommaSeparated(Dedup(req.added))

\* C27 witness: after addValidator(k1), addValidator(k2), addValidator(k1),
\* build has returned validator_pub_keys = "k1,k2".
C27_Witness ==
    /\ Built
    /\ req.kind = "consensus"
    /\ req.added = <<"k1", "k2", "k1">>
    /\ req.result.validator_pub_keys = "k1,k2"
    /\ req.result.unstake_type = "consensus"


\* the field a builder computes from what was added to it
ComputedField(o) ==
    IF req.kind = "consensus" THEN o.validator_pub_keys
    ELSE o.validator_unstake_amounts

\* a build call, returning or throwing, is the step being taken
BuildStep == lastOp' \in {"build", "buildError"}

\* C28: a build call of either builder, returning or throwing, leaves what
\* was added to the builder and the options map the caller passed as they
\* were; and a build that follows another build with no add call between
\* them returns the same unstake_type and the same computed field,
\* whatever options maps the two were given.
C28_BuildersReusable ==
    /\ [][BuildStep
            => /\ req'.validatorPubKeys = req.validatorPubKeys
               /\ req'.validatorAmounts = req.validatorAmounts
               /\ req'.added = req.added
               /\ req'.options = req'.passed]_vars
    /\ [](req.previous # NoOptions
            => /\ ComputedField(req.result) = ComputedField(req.previous)
               /\ req.result.unstake_type = req.previous.unstake_type)

\* C28 witness: the execution-layer builder, holding withdrawals for two
\* validators, was built from twice, first with a map of the caller's keys
\* and then with a map without them, and returned the same computed field.
C28_Witness ==
    /\ Built
    /\ req.kind = "execution"
    /\ Len(req.validatorAmounts) = 2
    /\ req.previous # NoOptions
    /\ req.previous.extra = "caller"
    /\ req.result.extra = "absent"
    /\ req.options = req.passed
    /\ req.result.validator_unstake_amounts = req.previous.validator_unstake_amounts
    /\ req.result.validator_unstake_amounts \notin {"absent", "caller"}


(***************************************************************************)
(* Claims about the merge of options maps (SpecOptions).                   *)
(***************************************************************************)
\* a build / create request has been sent
RequestSent == req.kind \in {"external", "wallet"} /\ req.payload.sent

\* a builder has just returned an options map
BuilderBuilt == req.kind \in {"consensus", "execution"} /\ Built

\* what holds of every merge: a key of the caller's own reaches the request
\* and the builder's result unchanged, mode is the mode argument, and the
\* builder's unstake_type and computed field are the computed ones,
\* whatever the caller's map held under those keys
MergeKeepsAndOverwrites ==
    /\ RequestSent =>
          /\ req.payload.extra = req.options.extra
          /\ req.payload.unstake_type = req.options.unstake_type
          /\ req.payload.mode = req.mode
    /\ BuilderBuilt =>
          /\ req.result.extra = req.passed.extra
          /\ req.result.unstake_type = req.kind
          /\ req.kind = "consensus" =>
                req.result.validator_pub_keys = CommaSeparated(req.validatorPubKeys)
          /\ req.kind = "execution" =>
                req.result.validator_unstake_amounts
                   = stringify(atomicAmounts(req.validatorAmounts, req.decimals))

\* C29 (original statement): every key of the caller's that is not a
\* computed key passes through unchanged, and under each of the keys mode,
\* amount, unstake_type, validator_unstake_amounts and validator_pub_keys
\* that the caller's map holds, the options submitted hold the computed
\* value.
C29_ComputedKeysWin ==
    /\ MergeKeepsAndOverwrites
    /\ (RequestSent /\ req.options.amount # "absent")
          => IsAtomicString(req.payload.amount, req.amount, req.decimals)
    /\ (BuilderBuilt /\ req.passed.validator_pub_keys # "absent")
          => req.result.validator_pub_keys = CommaSeparated(req.validatorPubKeys)
    /\ (BuilderBuilt /\ req.passed.validator_unstake_amounts # "absent")
          => req.result.validator_unstake_amounts
                = stringify(atomicAmounts(req.validatorAmounts, req.decimals))

\* C29 (amended): a key is overwritten only by the step that computes it,
\* and passes through otherwise: amount is the atomic amount unless the
\* request is amount-exempt, when the caller's amount (or none) is sent;
\* each builder writes unstake_type and its own field and passes the other
\* builder's field through as the caller's map held it.
C29_ComputedKeysWinWhereComputed ==
    /\ MergeKeepsAndOverwrites
    /\ RequestSent =>
          IF StatedExempt THEN req.payload.amount = req.options.amount
          ELSE IsAtomicString(req.payload.amount, req.amount, req.decimals)
    /\ (BuilderBuilt /\ req.kind = "execution")
          => req.result.validator_pub_keys = req.passed.validator_pub_keys
    /\ (BuilderBuilt /\ req.kind = "consensus")
          => req.result.validator_unstake_amounts
                = req.passed.validator_unstake_amounts

\* C29 witness: an amount-exempt unstake whose options map held mode, amount
\* and a key of the caller's own was sent with the mode argument, the
\* caller's amount and the caller's key.
C29_Witness ==
    /\ RequestSent
    /\ StatedExempt
    /\ req.options.mode = "caller"
    /\ req.options.amount = "caller"
    /\ req.options.extra = "caller"
    /\ req.payload.mode = "native"
    /\ req.payload.amount = "caller"
    /\ req.payload.extra = "caller"


(***************************************************************************)
(* Claims about the broadcasts of the poller (SpecPoller).                 *)
(***************************************************************************)
\* the for loop is at a transaction of the current list
AtTransaction == pc = "forLoop" /\ i < Len(transactions)

\* a broadcast request, answered or failed, is made in the step
BroadcastStep == lastOp' \in {"broadcast", "broadcastError"}

\* C30: a broadcast request is made only from the for loop, for the
\* transaction at the current index i of the current list, which was
\* unsigned and is signed by one signing call in the same step; the request
\* carries index i and that transaction's signed payload with its first two
\* characters, the 0x prefix, removed; and at a transaction that is already
\* signed the poller only moves on: no signing, no request.
C30_BroadcastOnlyJustSigned ==
    /\ [][BroadcastStep
            => /\ AtTransaction
               /\ ~isSigned(transactions[i + 1])
               /\ req'.kind = "broadcast"
               /\ req'.transaction_index = i
               /\ req'.transaction.unsigned_payload = transactions[i + 1].unsigned_payload
               /\ isSigned(req'.transaction)
               /\ req'.transaction.signs = transactions[i + 1].signs + 1
               /\ "0x" \o req'.signed_payload
                     = signTransaction(transactions[i + 1].unsigned_payload)]_vars
    /\ [][(AtTransaction /\ isSigned(transactions[i + 1]))
            => /\ lastOp' = "skip"
               /\ transactions' = transactions
               /\ model' = model
               /\ req' = req
               /\ broadcasted' = broadcasted
               /\ i' = i + 1]_vars

\* C30 witness: the poller has signed the second transaction of its list
\* and broadcast it with index 1, having stepped over the first, which was
\* already signed.
C30_Witness ==
    /\ lastOp = "broadcast"
    /\ req.kind = "broadcast"
    /\ req.transaction_index = 1
    /\ req.signed_payload = "signedp2"
    /\ req.transaction.unsigned_payload = "p2"
    /\ sweepLast = 1
    /\ broadcasted = {"p2"}


(***************************************************************************)
(* Claims about the progress of the poller (SpecPollerFair).               *)
(***************************************************************************)
\* the list in hand holds an unsigned transaction with payload p
HoldsUnsigned(p) ==
    \E k \in DOMAIN transactions :
        /\ transactions[k].unsigned_payload = p
        /\ ~isSigned(transactions[k])

\* the poller is between two steps of its loop
PollerRunning == pc \in {"loopTop", "forLoop", "delay"}

\* a snapshot just returned by a broadcast or by a reload lists the payload
\* p, never broadcast in this run, unsigned, the operation is not terminal
\* and the deadline has not elapsed
ObservedNew(p) ==
    /\ PollerRunning
    /\ lastOp \in {"broadcast", "reload"}
    /\ HoldsUnsigned(p)
    /\ p \notin broadcasted
    /\ ~isTerminalState(model)
    /\ now - startTime < timeoutSeconds

C32_WaitReturnsAfterTerminalReload ==
    /\ [](pc = "returned" => (lastOp = "reload" /\ isTerminalState(model)))
    /\ [][pc' = "returned" => (pc = "waitReload" /\ lastOp' = "reload")]_vars
    /\ [][lastOp' = "reload" => lastOp = "waitTop"]_vars
    /\ [][lastOp' = "waitTop" => (lastOp = "waitEnter" \/ lastOp = "delay")]_vars
    /\ [][lastOp' = "delay"
            => (lastOp = "reload" /\ now' = now + intervalSeconds)]_vars

\* C32 witness: wait has returned a terminal snapshot from its second or
\* later reload (every request took no time, yet the clock has advanced),
\* and that reload fetched the snapshot.
C32_Witness ==
    /\ pc = "returned"
    /\ isTerminalState(model)
    /\ lastFetch.outcome = "ok"
    /\ instant
    /\ now >= startTime + intervalSeconds


(***************************************************************************)
(* Claims about the arguments of wait (SpecWaitArgs).                      *)
(***************************************************************************)
\* a non-positive timeoutSeconds or a negative intervalSeconds
MalformedWaitArguments == timeoutSeconds <= 0 \/ intervalSeconds < 0

\* C33: wait called with a non-positive timeoutSeconds or a negative
\* intervalSeconds ends in an error at its entry, never in the timeout
\* error, and issues no reload.
C33_MalformedWaitRejected ==
    /\ [](MalformedWaitArguments => (pc # "timeout" /\ lastOp # "reload"))
    /\ [][(pc = "idle" /\ MalformedWaitArguments) => pc' = "error"]_vars


(***************************************************************************)
(* Claims about the queries of a StakingOperation (SpecQueries).           *)
(***************************************************************************)
QueryNames == {"isTerminalState", "isCompleteState", "isFailedState",
               "getSignedVoluntaryExitMessages"}

\* C34: in every state isTerminalState() is isCompleteState() or
\* isFailedState(), the two are never both true, each query answers from
\* the status of the stored snapshot, and a query (the three predicates and
\* getSignedVoluntaryExitMessages, returning or throwing) changes neither
\* the stored snapshot nor the transaction list and makes no backend call.
C34_QueriesArePure ==
    /\ [](isTerminalState(model) = (isCompleteState(model) \/ isFailedState(model)))
    /\ [](~(isCompleteState(model) /\ isFailedState(model)))
    /\ []((req.kind = "query" /\ lastOp = "isTerminalState")
            => req.holds = (model.status \in {"complete", "failed"}))
    /\ []((req.kind = "query" /\ lastOp = "isCompleteState")
            => req.holds = (model.status = "complete"))
    /\ []((req.kind = "query" /\ lastOp = "isFailedState")
            => req.holds = (model.status = "failed"))
    /\ [][lastOp' \in QueryNames
            => /\ model' = model
               /\ transactions' = transactions
               /\ lastFetch' = lastFetch]_vars

\* C34 witness: after a reload that stored a Failed snapshot with two
\* messages, getSignedVoluntaryExitMessages has returned them decoded.
C34_Witness ==
    /\ lastOp = "getSignedVoluntaryExitMessages"
    /\ req.kind = "query"
    /\ req.messages = <<"a", "b">>
    /\ lastFetch.outcome = "ok"
    /\ isFailedState(model)
    /\ isTerminalState(model)


(***************************************************************************)
(* Claims about the retries of the transport (SpecRetry).                  *)
(***************************************************************************)
\* a failed GET whose response status is 500, 502, 503 or 504
RetryableFailure(method, error) ==
    /\ toUpperCase(method) = "GET"
    /\ error.response
    /\ error.status \in {500, 502, 503, 504}

\* C35: a failed request is sent again exactly if it is a GET whose
\* response status is 500, 502, 503 or 504 and fewer than maxNetworkRetries
\* retries were made; a request with another method or another status is
\* never sent again.
C35_RetryOnlyGetServerErrors ==
    /\ [][lastOp' = "retry"
            => /\ RetryableFailure(req.method, req'.error)
               /\ req.retryCount < req.retries]_vars
    /\ [][lastOp' = "reject"
            => ~(/\ RetryableFailure(req.method, req'.error)
                 /\ req.retryCount < req.retries)]_vars
    /\ [](req.kind = "http" => req.sent <= req.retries + 1)


(***************************************************************************)
(* Claims about the uniqueness of payloads in the local list (Spec).       *)
(***************************************************************************)
\* C36: in every state of a StakingOperation, after construction from any
\* snapshot and after any number of reloads with any snapshots, no two
\* entries of the local transaction list have the same unsigned payload.
C36_UniqueUnsignedPayloads ==
    \A a, b \in DOMAIN transactions :
        a # b => getUnsignedPayload(transactions[a])
                    # getUnsignedPayload(transactions[b])


(***************************************************************************)
(* Claims about the index the poller submits (SpecPoller).                 *)
(***************************************************************************)
\* C37: whenever a broadcast is issued with index i, the transaction at
\* position i of the most recent snapshot returned by the backend has the
\* unsigned payload of the transaction that was just signed.
C37_IndexDesignatesSignedTransaction ==
    [][BroadcastStep
        => /\ req'.transaction_index + 1 \in DOMAIN backendList
           /\ backendList[req'.transaction_index + 1]
                = getUnsignedPayload(req'.transaction)]_vars


(***************************************************************************)
(* Claims about the caller's options object (SpecRequest).                 *)
(***************************************************************************)
\* C38: at every point of a build*Operation call on an external address and
\* of a create* call on a wallet address, and after it, the options object
\* the caller passed has exactly the keys and values it had at the call.
C38_CallerOptionsUnchanged ==
    req.kind \in {"external", "wallet"} => req.held = req.options


(***************************************************************************)
(* Claims about the request of reload (SpecStatus).                        *)
(***************************************************************************)
\* C39: every reload that returns normally, whatever the wallet id of the
\* stored snapshot (undefined, a wallet id, the empty string, null), has
\* made one get-staking-operation request and stored its response.
C39_ReloadAlwaysFetches ==
    [][(lastOp' = "reload" /\ lastFetch'.outcome # "error")
        => /\ lastFetch'.outcome = "ok"
           /\ lastFetch'.path \in {"external", "wallet"}
           /\ model'.status = lastFetch'.status
           /\ model'.wallet_id = lastFetch'.wallet_id]_vars


(***************************************************************************)
(* Claims about a reload whose request fails (Spec).                       *)
(***************************************************************************)
\* C40: a reload whose request fails leaves the stored snapshot and the
\* local transaction list, with the signature state of every transaction,
\* exactly as they were before the call.
C40_FailedReloadChangesNothing ==
    [][(lastOp' = "reload" /\ lastFetch'.outcome = "error")
        => /\ model' = model
           /\ transactions' = transactions]_vars

\* C40 witness: a reload has failed on an operation that holds a
\* transaction signed by sign(key) and one that is not signed.
C40_Witness ==
    /\ lastOp = "reload"
    /\ lastFetch.outcome = "error"
    /\ \E k \in DOMAIN transactions :
          isSigned(transactions[k]) /\ transactions[k].signs = 1
    /\ \E k \in DOMAIN transactions : ~isSigned(transactions[k])

====
